---- MODULE Spec2Model ----
(***************************************************************************)
(* The project-file registration scripts of LyoJune, as a state machine.   *)
(*                                                                         *)
(* The state is the project document on disk (project.pbxproj), the backup *)
(* copy a script takes, and the position of the one script that is running *)
(* (runs are sequential: a single writer).                                 *)
(*                                                                         *)
(* The document is text; the scripts splice text into it with regular      *)
(* expressions and str.find/str.replace.  It is modelled by what that text *)
(* holds: the BuildFile and FileReference records in section order, the    *)
(* groups with their child entries, the build phases in file order with    *)
(* their member entries, which section markers are present and in which    *)
(* form, whether the head of a group or phase still has the text it was    *)
(* written with, and how many fragments of stray text (blank lines, dangling *)
(* indentation, a repeated attribute line) splices have left behind.       *)
(* Every splice of a script changes one of these parts, so two documents   *)
(* that differ in them differ as text.  Every search pattern of a script   *)
(* is an operator that says where the pattern matches in such a document.  *)
(*                                                                         *)
(* A file name is its stem as a sequence of parts followed by ".swift";    *)
(* since every ".swift" in the document ends a file name, the text of name *)
(* n occurs inside the text of name m exactly when n is a suffix of m      *)
(* ("AIService.swift" in "EnhancedAIService.swift").                       *)
(***************************************************************************)
EXTENDS Naturals, Sequences, FiniteSets, TLC

VARIABLES
    disk,      \* the project document on disk
    backup,    \* the backup file of the running script: <<>> or <<document>>
    pc,        \* "idle" | "loop" | "commit" | "verify" | "done"
    script,    \* the script that is running (or ran last)
    queue,     \* the requests still to process (paths of files that exist)
    start,     \* the document as it was on disk when the run began
    files,     \* the request list the run was started with
    report,    \* per request: [path, res], res "added" | "skipped" | "failed"
    nwrites,   \* writes of the project document in this run
    outcome,   \* how the run went: "running" | "ok" | "early" | "raised" | "restored"
    verdict,   \* the run's own verification: "none" | "pass" | "fail"
    hist,      \* the run completed before this one
    runs,      \* runs begun so far
    drawn      \* the identifiers the generator has returned in this run

vars == <<disk, backup, pc, script, queue, start, files, report,
          nwrites, outcome, verdict, hist, runs, drawn>>

---------------------------------------------------------------------------
(* Bounds *)

MaxRuns == 2      \* script runs in one behaviour
MaxFiles == 2     \* requests in one run

---------------------------------------------------------------------------
(* Identifiers.  The identifiers the scripts hard-code: *)

SOURCES_PHASE_ID == 9201        \* 92A5145C75D5A57ABAFEE26F
CORE_GROUP_ID == 4901           \* 49A7E77EA5B345E8B3FDB84E
CORE_MODELS_GROUP_ID == 4993    \* 4993D84E2E9471A87A6702DB
DESIGN_SYSTEM_GROUP_ID == 1901  \* 1EDE9C732A326B470F4A35F9
NETWORK_MANAGER_REF_ID == 8101  \* EB1AB25F7A8A449FB806F6BB
ERROR_TYPES_BUILD_ID == 7001    \* 7CCDE3E310FD4F9C9D863936
NETWORKING_GROUP_ID == 7101     \* CE7133B6BA7D44ABBB812638

(* Identifiers a starting document can hold besides those. *)
OTHER_PHASE_ID == 9301
FRAMEWORKS_PHASE_ID == 9401
SHARED_GROUP_ID == 5001
SERVICES_GROUP_ID == 5101
DocIdBase == 500

---------------------------------------------------------------------------
(* File names and paths *)

AIService == <<"AIService">>
EnhancedAIService == <<"Enhanced", "AIService">>
AnimationSystem == <<"AnimationSystem">>
NetworkTypes == <<"NetworkTypes">>
AppModels == <<"AppModels">>
NetworkingProtocols == <<"NetworkingProtocols">>
APIModels == <<"APIModels">>
ErrorTypes == <<"ErrorTypes">>
EnhancedNetworkManager == <<"EnhancedNetworkManager">>

NoDir == "."

Path(dir, name) == [dir |-> dir, name |-> name]

(* The hard-coded file list of a script, in the order the script lists it: *)
(* a name in one directory, and two names in another of which the second   *)
(* contains the first ("AIService.swift", "EnhancedAIService.swift").  The *)
(* scripts keep the entries whose file exists, in list order.              *)
ListedFiles ==
    << Path("Models", AppModels), Path("Services", AIService),
       Path("Services", EnhancedAIService) >>

(* What os.walk can find besides: the same name in a second directory. *)
WalkPaths ==
    { ListedFiles[i] : i \in DOMAIN ListedFiles } \cup { Path("Views", AIService) }

RECURSIVE SeqsUpTo(_, _)
SeqsUpTo(S, n) ==
    IF n = 0 THEN {<<>>}
    ELSE LET shorter == SeqsUpTo(S, n - 1)
         IN  shorter \cup { Append(s, x) : s \in shorter, x \in S }

NoDup(s) == \A i, j \in DOMAIN s : i # j => s[i] # s[j]

RECURSIVE SeqFilter(_, _)
SeqFilter(s, keep) ==
    IF s = << >> THEN << >>
    ELSE IF Head(s) \in keep THEN <<Head(s)>> \o SeqFilter(Tail(s), keep)
         ELSE SeqFilter(Tail(s), keep)

Range(s) == { s[i] : i \in DOMAIN s }

(* The listed files that exist: any part of the list, at most MaxFiles. *)
ExistingLists ==
    { SeqFilter(ListedFiles, E) : E \in { X \in SUBSET Range(ListedFiles) :
                                            Cardinality(X) <= MaxFiles } }

(* The files found by os.walk, in directory order (any order). *)
WalkLists == { s \in SeqsUpTo(WalkPaths, MaxFiles) : NoDup(s) }

(* str.__contains__ / str.count between file names *)
IsSuffix(n, m) ==
    /\ Len(n) <= Len(m)
    /\ SubSeq(m, Len(m) - Len(n) + 1, Len(m)) = n

---------------------------------------------------------------------------
(* The document *)

BuildFile(id, fref, name) == [id |-> id, fref |-> fref, name |-> name]
FileRef(id, name, dir) == [id |-> id, name |-> name, dir |-> dir]
Entry(id, name) == [id |-> id, name |-> name]
Group(id, name, children) ==
    [id |-> id, name |-> name, children |-> children, form |-> "std"]
Phase(id, name, members) ==
    [id |-> id, name |-> name, files |-> members, form |-> "std"]

(* The comment of a child entry that names a group ("/* Models */"): no    *)
(* file name, so no file name occurs in it.                                *)
GroupLabel(name) == <<name, "<group>">>

StdMarkers ==
    [bfBegin |-> "std", bfEnd |-> "std", frBegin |-> "std", frEnd |-> "std",
     grpEnd |-> "std"]

RECURSIVE SumSeq(_)
SumSeq(s) == IF s = <<>> THEN 0 ELSE Head(s) + SumSeq(Tail(s))

Occ(s, n) == Cardinality({ i \in DOMAIN s : IsSuffix(n, s[i].name) })

(* content.count(file_name): a BuildFile line names its file twice, a      *)
(* FileReference line twice (comment and path), a child or member entry    *)
(* once.                                                                   *)
CountName(d, n) ==
    2 * Occ(d.bf, n) + 2 * Occ(d.fr, n)
    + SumSeq([g \in DOMAIN d.groups |-> Occ(d.groups[g].children, n)])
    + SumSeq([p \in DOMAIN d.phases |-> Occ(d.phases[p].files, n)])

(* file_name in content *)
NameInContent(d, n) == CountName(d, n) > 0

AllEntries(conts, field) ==
    UNION { { conts[c][field][i] : i \in DOMAIN conts[c][field] } : c \in DOMAIN conts }

(* Every identifier that occurs in the document. *)
UsedIds(d) ==
    { d.bf[i].id : i \in DOMAIN d.bf } \cup { d.bf[i].fref : i \in DOMAIN d.bf }
    \cup { d.fr[i].id : i \in DOMAIN d.fr }
    \cup { d.groups[g].id : g \in DOMAIN d.groups }
    \cup { d.phases[p].id : p \in DOMAIN d.phases }
    \cup { e.id : e \in AllEntries(d.groups, "children") }
    \cup { e.id : e \in AllEntries(d.phases, "files") }

(* uuid.uuid4() (and the random-byte generators): a draw is an identifier  *)
(* not drawn before and not in the document; which one does not matter to  *)
(* the scripts, so the draw is the least such token.                       *)
generate_uuid(used) ==
    CHOOSE n \in 1..(Cardinality(used) + 1) :
        n \notin used /\ \A m \in 1..(n - 1) : m \in used

(* A search for a section marker in its standard form, as str.find or a   *)
(* properly escaped pattern does it: "/* End PBXBuildFile section */".     *)
StdMarkerFound(form) == form = "std"

(* A pattern that leaves the comment delimiters unescaped, such as         *)
(* r'(/* End PBXBuildFile section */)': "/*" is "zero or more slashes" and *)
(* " */" is "zero or more spaces, then a slash", so the pattern matches    *)
(* the text " End PBXBuildFile section/" and never the standard marker,    *)
(* where "section" is followed by " */".                                   *)
UnescapedMarkerRe(form) == form = "bare"

(* The "/* Sources */ = {" and "/* Models */ = {" headers of phases and    *)
(* groups are always in standard form.                                     *)
HeaderForm == "std"

SourcesPhases(d) == { i \in DOMAIN d.phases : d.phases[i].name = "Sources" }

AppendMember(d, T, e) ==
    [d EXCEPT !.phases =
        [i \in DOMAIN d.phases |->
            IF i \in T THEN [d.phases[i] EXCEPT !.files = Append(@, e)]
            ELSE d.phases[i]]]

AppendChild(d, T, e) ==
    [d EXCEPT !.groups =
        [i \in DOMAIN d.groups |->
            IF i \in T THEN [d.groups[i] EXCEPT !.children = Append(@, e)]
            ELSE d.groups[i]]]

Stray(d, k) == [d EXCEPT !.ws = @ + k]

---------------------------------------------------------------------------
(* add_files_to_project.py and add_additional_files.py (the same function, *)
(* the second with an "already in project" test in front).                 *)

(* sources_pattern r'(/* Sources \*/ = \{[\s\S]*?files = \([\s\S]*?)(\s*\);[\s\S]*?};)' *)
(* under re.sub: the unescaped "/*" lets a match start at " Sources */ = {" *)
(* of a BuildFile line ("... in Sources */ = {isa = PBXBuildFile"), from    *)
(* where it runs on to the first "files = (" of the file, whatever phase    *)
(* that is; after it, every later phase headed "/* Sources */ = {" matches. *)
AFP_SourcesTargets(d) ==
    IF d.bf # <<>> /\ d.phases # <<>>
    THEN {1} \cup { i \in SourcesPhases(d) : i > 1 }
    ELSE SourcesPhases(d)

AFP_Splice(d, name) ==
    LET file_ref_uuid == generate_uuid(UsedIds(d))
        build_file_uuid == generate_uuid(UsedIds(d) \cup {file_ref_uuid})
        d1 == IF UnescapedMarkerRe(d.mk.bfEnd)
              THEN Stray([d EXCEPT !.bf =
                       Append(@, BuildFile(build_file_uuid, file_ref_uuid, name))], 1)
              ELSE d
        d2 == IF UnescapedMarkerRe(d1.mk.frEnd)
              THEN Stray([d1 EXCEPT !.fr =
                       Append(@, FileRef(file_ref_uuid, name, NoDir))], 1)
              ELSE d1
        T  == AFP_SourcesTargets(d2)
    IN  Stray(AppendMember(d2, T, Entry(build_file_uuid, name)), Cardinality(T))

(* add_files_to_project.add_file_to_xcode_project: read, splice, write. *)
AFP_add(d, req) == [doc |-> AFP_Splice(d, req.name), res |-> "added", wrote |-> TRUE]

(* add_additional_files.add_file_to_xcode_project *)
AAF_add(d, req) ==
    IF NameInContent(d, req.name)
    THEN [doc |-> d, res |-> "skipped", wrote |-> FALSE]
    ELSE [doc |-> AFP_Splice(d, req.name), res |-> "added", wrote |-> TRUE]

---------------------------------------------------------------------------
(* fix_project_correctly.py *)

FPC_add(d, req) ==
    IF NameInContent(d, req.name)
    THEN [doc |-> d, res |-> "skipped", wrote |-> FALSE]
    ELSE
    LET file_ref_uuid == generate_uuid(UsedIds(d))
        build_file_uuid == generate_uuid(UsedIds(d) \cup {file_ref_uuid})
        d1 == IF UnescapedMarkerRe(d.mk.bfEnd)
              THEN Stray([d EXCEPT !.bf =
                       Append(@, BuildFile(build_file_uuid, file_ref_uuid, req.name))], 1)
              ELSE d
        d2 == IF UnescapedMarkerRe(d1.mk.frEnd)
              THEN Stray([d1 EXCEPT !.fr =
                       Append(@, FileRef(file_ref_uuid, req.name, NoDir))], 1)
              ELSE d1
        \* r'(/\* Sources \*/ = \{[^}]*files = \([^}]*?)(\);[^}]*\};)', re.sub
        T  == SourcesPhases(d2)
    IN  [doc |-> Stray(AppendMember(d2, T, Entry(build_file_uuid, req.name)),
                       Cardinality(T)),
         res |-> "added", wrote |-> TRUE]

(* The verification loop at the end of fix_project_correctly.py: every     *)
(* name of the list must occur at least twice.                             *)
FPC_verify(d, fl) ==
    IF \A i \in DOMAIN fl : CountName(d, fl[i].name) >= 2 THEN "pass" ELSE "fail"

---------------------------------------------------------------------------
(* add_missing_files_to_project.py *)

AMFP_add(d, req) ==
    IF NameInContent(d, req.name)
    THEN [doc |-> d, res |-> "skipped", wrote |-> FALSE]
    ELSE
    LET file_ref_uuid == generate_uuid(UsedIds(d))
        build_file_uuid == generate_uuid(UsedIds(d) \cup {file_ref_uuid})
        \* r'(/* Begin PBXFileReference section */.*?)(/* End PBXFileReference section */)'
        d1 == IF UnescapedMarkerRe(d.mk.frBegin) /\ UnescapedMarkerRe(d.mk.frEnd)
              THEN Stray([d EXCEPT !.fr =
                       Append(@, FileRef(file_ref_uuid, req.name, req.dir))], 1)
              ELSE d
        d2 == IF UnescapedMarkerRe(d1.mk.bfBegin) /\ UnescapedMarkerRe(d1.mk.bfEnd)
              THEN Stray([d1 EXCEPT !.bf =
                       Append(@, BuildFile(build_file_uuid, file_ref_uuid, req.name))], 1)
              ELSE d1
        \* group_name is None in every call of main: no group is touched.
        \* r'(/* Sources */.*?files = \()(.*?)(\);)', re.search: the first match
        T  == IF UnescapedMarkerRe(HeaderForm) /\ SourcesPhases(d2) # {}
              THEN { CHOOSE i \in SourcesPhases(d2) :
                        \A j \in SourcesPhases(d2) : i <= j }
              ELSE {}
    IN  [doc |-> AppendMember(d2, T, Entry(build_file_uuid, req.name)),
         res |-> "added", wrote |-> TRUE]

---------------------------------------------------------------------------
(* Helpers of the scripts that prepare a whole batch and splice it once *)

(* The identifiers drawn in the loop over the files: two per file, the     *)
(* FileReference's first (frFirst) or the BuildFile's first.               *)
RECURSIVE AssignIds(_, _, _)
AssignIds(reqs, used, frFirst) ==
    IF reqs = << >> THEN << >>
    ELSE LET a == generate_uuid(used)
             b == generate_uuid(used \cup {a})
             e == [name |-> Head(reqs).name, dir |-> Head(reqs).dir,
                   fr |-> IF frFirst THEN a ELSE b,
                   bf |-> IF frFirst THEN b ELSE a]
         IN  <<e>> \o AssignIds(Tail(reqs), used \cup {a, b}, frFirst)

BuildFilesOf(es) == [i \in DOMAIN es |-> BuildFile(es[i].bf, es[i].fr, es[i].name)]
FileRefsOf(es, withDir) ==
    [i \in DOMAIN es |->
        FileRef(es[i].fr, es[i].name, IF withDir THEN es[i].dir ELSE NoDir)]
MembersOf(es) == [i \in DOMAIN es |-> Entry(es[i].bf, es[i].name)]

AppendMembers(d, T, ms) ==
    [d EXCEPT !.phases =
        [i \in DOMAIN d.phases |->
            IF i \in T THEN [d.phases[i] EXCEPT !.files = @ \o ms]
            ELSE d.phases[i]]]

(* What the script says of each request: "added", "skipped" (found in the *)
(* project already) or "failed" (given up, or never reached).              *)
ReportOf(fl, added, skipped) ==
    [i \in DOMAIN fl |->
        [path |-> fl[i],
         res |-> IF fl[i] \in added THEN "added"
                 ELSE IF fl[i] \in skipped THEN "skipped" ELSE "failed"]]

(* The phase "92A5145C75D5A57ABAFEE26F /* Sources */ = {" *)
PrimaryPhase(d) ==
    { i \in DOMAIN d.phases :
        d.phases[i].id = SOURCES_PHASE_ID /\ d.phases[i].name = "Sources" }

---------------------------------------------------------------------------
(* comprehensive_fix.py *)

\* r'(/\* End PBXBuildFile section \*/)', re.sub
CF_BuildFiles(d, es) ==
    IF StdMarkerFound(d.mk.bfEnd)
    THEN Stray([d EXCEPT !.bf = @ \o BuildFilesOf(es)], 1)
    ELSE d

\* r'(/\* End PBXFileReference section \*/)', re.sub
CF_FileRefs(d, es) ==
    IF StdMarkerFound(d.mk.frEnd)
    THEN Stray([d EXCEPT !.fr = @ \o FileRefsOf(es, FALSE)], 1)
    ELSE d

\* r'(/\* Sources \*/ = \{[^}]*?files = \([^)]*?)(\s*\);)', re.sub
CF_Sources(d, es) ==
    Stray(AppendMembers(d, SourcesPhases(d), MembersOf(es)),
          Cardinality(SourcesPhases(d)))

CF_add_files_to_xcode_project(d, fl) ==
    LET new == SeqFilter(fl, { r \in Range(fl) : ~NameInContent(d, r.name) })
        es  == AssignIds(new, UsedIds(d), TRUE)
    IN  IF new = << >>
        THEN [doc |-> d, wrote |-> FALSE, outcome |-> "ok",
              report |-> ReportOf(fl, {}, Range(fl))]
        ELSE [doc |-> CF_Sources(CF_FileRefs(CF_BuildFiles(d, es), es), es),
              wrote |-> TRUE, outcome |-> "ok",
              report |-> ReportOf(fl, Range(new), Range(fl))]

(* The directories main's verification probes for the file. *)
CF_ProbedDirs == { "Services", "Network", "UI", "Configuration" }

(* main's verification: each listed file found in a probed directory must  *)
(* be named at least twice.                                                *)
CF_verify(d, fl) ==
    IF \A i \in DOMAIN fl :
           fl[i].dir \in CF_ProbedDirs => CountName(d, fl[i].name) >= 2
    THEN "pass" ELSE "fail"

---------------------------------------------------------------------------
(* fix_paths_correctly.py: add_files_to_xcode_project_correct_paths is the *)
(* function of comprehensive_fix.py line for line (the file is looked for  *)
(* under LyoApp/, the entries written are the same).  Its main counts      *)
(* every listed name, whether the file exists or not.                      *)
FPCP_verify(d) ==
    IF \A i \in DOMAIN ListedFiles : CountName(d, ListedFiles[i].name) >= 2
    THEN "pass" ELSE "fail"

---------------------------------------------------------------------------
(* fix_project_file_final.py *)

(* f'/* {filename} */' in content: the comment of a FileReference line, the *)
(* second comment of a BuildFile line, or a child entry.                    *)
CommentInContent(d, n) ==
    \/ \E i \in DOMAIN d.fr : d.fr[i].name = n
    \/ \E i \in DOMAIN d.bf : d.bf[i].name = n
    \/ \E e \in AllEntries(d.groups, "children") : e.name = n

(* The three insertions: at the End markers and in front of the ");" of    *)
(* the primary phase.                                                      *)
FPFF_Insert(d, es) ==
    Stray(AppendMembers([d EXCEPT !.bf = @ \o BuildFilesOf(es),
                                  !.fr = @ \o FileRefsOf(es, FALSE)],
                        PrimaryPhase(d), MembersOf(es)), 1)

FPFF_main(d, fl) ==
    LET missing_files ==
            SeqFilter(fl, { r \in Range(fl) : ~CommentInContent(d, r.name) })
        sections == /\ StdMarkerFound(d.mk.bfBegin) /\ StdMarkerFound(d.mk.bfEnd)
                    /\ StdMarkerFound(d.mk.frBegin) /\ StdMarkerFound(d.mk.frEnd)
    IN  IF missing_files = << >> \/ ~sections \/ PrimaryPhase(d) = {}
        THEN [doc |-> d, wrote |-> FALSE, outcome |-> "early",
              report |-> ReportOf(fl, {}, Range(fl) \ Range(missing_files))]
        ELSE [doc |-> FPFF_Insert(d, AssignIds(missing_files, UsedIds(d), FALSE)),
              wrote |-> TRUE, outcome |-> "ok",
              report |-> ReportOf(fl, Range(missing_files), Range(fl))]

---------------------------------------------------------------------------
(* add_critical_missing_files.py *)

(* The requests the loop passed (as in the project already) before it     *)
(* came to the first one that is not.                                      *)
ACMF_SkippedBefore(fl, first) ==
    { fl[i] : i \in { j \in DOMAIN fl : \A k \in 1..j : fl[k] # first } }

ACMF_main(d, fl) ==
    LET sections == /\ StdMarkerFound(d.mk.bfBegin) /\ StdMarkerFound(d.mk.bfEnd)
                    /\ StdMarkerFound(d.mk.frBegin) /\ StdMarkerFound(d.mk.frEnd)
        \* r'(/\* Sources \*/ = \{[^}]*?files = \([^)]*?)(\);[^}]*?\};)'
        sources_match == SourcesPhases(d)
        new == SeqFilter(fl, { r \in Range(fl) : ~NameInContent(d, r.name) })
    IN  IF ~sections \/ sources_match = {}
        THEN [doc |-> d, wrote |-> FALSE, outcome |-> "early",
              report |-> ReportOf(fl, {}, {})]
        ELSE IF new # << >>
        \* ''.join(f'{ord(c):02X}' for c in os.urandom(12)): iterating bytes
        \* yields ints and ord(int) raises TypeError; nothing catches it.
        THEN [doc |-> d, wrote |-> FALSE, outcome |-> "raised",
              report |-> ReportOf(fl, {}, ACMF_SkippedBefore(fl, Head(new)))]
        \* new_build_entries is empty: the content is written back as read.
        ELSE [doc |-> d, wrote |-> TRUE, outcome |-> "ok",
              report |-> ReportOf(fl, {}, Range(fl))]

---------------------------------------------------------------------------
(* The insertions shared by add_missing_files.py, add_missing_files_fixed, *)
(* add_missing_files_advanced, add_animation_system and                    *)
(* add_networking_protocols_manual (the same lines in each).               *)

(* '\n' + '\n'.join(entries) in front of the marker line: an empty list     *)
(* leaves a blank line.                                                     *)
Blank(es) == IF es = << >> THEN 1 ELSE 0

(* content.find('/* End PBXFileReference section */'), then the end of the *)
(* line before it.                                                         *)
InsertFileReferences(d, frs) ==
    IF StdMarkerFound(d.mk.frEnd)
    THEN Stray([d EXCEPT !.fr = @ \o frs], Blank(frs))
    ELSE d

(* content.find('/* End PBXBuildFile section */') *)
InsertBuildFiles(d, bfs) ==
    IF StdMarkerFound(d.mk.bfEnd)
    THEN Stray([d EXCEPT !.bf = @ \o bfs], Blank(bfs))
    ELSE d

(* content.find('/* End PBXGroup section */') *)
InsertGroups(d, gs) ==
    IF StdMarkerFound(d.mk.grpEnd) THEN [d EXCEPT !.groups = @ \o gs] ELSE d

AppendChildren(d, T, cs) ==
    [d EXCEPT !.groups =
        [i \in DOMAIN d.groups |->
            IF i \in T THEN [d.groups[i] EXCEPT !.children = @ \o cs]
            ELSE d.groups[i]]]

First(S) == IF S = {} THEN {} ELSE { CHOOSE i \in S : \A j \in S : i <= j }

(* rf'({id} /\* {name} \*/ = \{{\s+isa = PBXGroup;\s+children = \([^)]+)', re.search *)
GroupMatch(d, id, name) ==
    First({ g \in DOMAIN d.groups : d.groups[g].id = id /\ d.groups[g].name = name })

(* The entries go in at the end of the match, in front of the ")", behind  *)
(* the indentation that closed the list.                                   *)
InsertChildren(d, id, name, cs) ==
    IF cs # << >> /\ GroupMatch(d, id, name) # {}
    THEN Stray(AppendChildren(d, GroupMatch(d, id, name), cs), 1)
    ELSE d

(* r'(92A5145C75D5A57ABAFEE26F /\* Sources \*/ = \{[^}]+files = \([^)]+)', re.search *)
InsertMembers(d, ms) ==
    IF PrimaryPhase(d) # {}
    THEN Stray(AppendMembers(d, PrimaryPhase(d), ms), 1)
    ELSE d

---------------------------------------------------------------------------
(* add_missing_files.py *)

(* The keys of new_groups. *)
NewGroupNames == << "Services", "Networking", "Configuration", "Shared" >>

RECURSIVE DrawIds(_, _)
DrawIds(n, used) ==
    IF n = 0 THEN << >>
    ELSE LET a == generate_uuid(used)
         IN  <<a>> \o DrawIds(n - 1, used \cup {a})

RECURSIVE InDir(_, _)
InDir(es, dir) ==
    IF es = << >> THEN << >>
    ELSE IF Head(es).dir = dir THEN <<Head(es)>> \o InDir(Tail(es), dir)
         ELSE InDir(Tail(es), dir)

ChildrenOf(es) == [i \in DOMAIN es |-> Entry(es[i].fr, es[i].name)]

GroupRefs(gids) ==
    [k \in DOMAIN NewGroupNames |-> Entry(gids[k], GroupLabel(NewGroupNames[k]))]

IdsOf(es) == { es[i].fr : i \in DOMAIN es } \cup { es[i].bf : i \in DOMAIN es }

(* The second literal of group_entry is not an f-string: the text of the   *)
(* group ends "path = {group_name}; ... }};".                              *)
AMF_new_group_entries(es, gids) ==
    [k \in DOMAIN NewGroupNames |->
        [Group(gids[k], NewGroupNames[k], ChildrenOf(InDir(es, NewGroupNames[k])))
           EXCEPT !.form = "template"]]

AMF_Insert(d, es, gids) ==
    InsertMembers(
      InsertChildren(
        InsertChildren(
          InsertChildren(
            InsertGroups(
              InsertBuildFiles(
                InsertFileReferences(d, FileRefsOf(es, FALSE)),
                BuildFilesOf(es)),
              AMF_new_group_entries(es, gids)),
            CORE_MODELS_GROUP_ID, "Models", ChildrenOf(InDir(es, "Models"))),
          DESIGN_SYSTEM_GROUP_ID, "DesignSystem", ChildrenOf(InDir(es, "DesignSystem"))),
        CORE_GROUP_ID, "Core", GroupRefs(gids)),
      MembersOf(es))

AMF_add_files_to_xcode_project(d, fl) ==
    [doc |-> AMF_Insert(d, AssignIds(fl, UsedIds(d), TRUE),
                        DrawIds(Len(NewGroupNames),
                                UsedIds(d) \cup IdsOf(AssignIds(fl, UsedIds(d), TRUE)))),
     wrote |-> TRUE, outcome |-> "ok", report |-> ReportOf(fl, Range(fl), {})]

---------------------------------------------------------------------------
(* add_missing_files_fixed.py *)

(* path = "{relative_path}": the directory is part of the record. *)
AMFF_add_files_to_xcode_project(d, fl) ==
    LET es == AssignIds(fl, UsedIds(d), TRUE)
    IN  [doc |-> InsertMembers(
                   InsertBuildFiles(
                     InsertFileReferences(d, FileRefsOf(es, TRUE)),
                     BuildFilesOf(es)),
                   MembersOf(es)),
         wrote |-> TRUE, outcome |-> "ok", report |-> ReportOf(fl, Range(fl), {})]

---------------------------------------------------------------------------
(* add_missing_files_advanced.py *)

(* The identifier occurs in the document's groups: as the header of group  *)
(* g or in the children of group g.                                        *)
IdInGroup(d, id, g) ==
    \/ d.groups[g].id = id
    \/ \E i \in DOMAIN d.groups[g].children : d.groups[g].children[i].id = id

\* rf'({target_group} /\* .+ \*/ = \{{\s+isa = PBXGroup;\s+children = \([^)]+)'
\* under re.DOTALL: the match starts at the first occurrence of the identifier
\* and ".+" runs on to the last group header of the file, so the insertion
\* point is the end of the children of the LAST group, whichever it is.
AMFA_ExistingGroupMatch(d, id) ==
    IF Len(d.groups) > 0
       /\ ( \/ \E g \in 1..Len(d.groups) : d.groups[g].id = id
            \/ \E g \in 1..(Len(d.groups) - 1) : IdInGroup(d, id, g) )
    THEN {Len(d.groups)} ELSE {}

AMFA_TargetOfDir(dir) ==
    IF dir = "Models" THEN CORE_MODELS_GROUP_ID ELSE DESIGN_SYSTEM_GROUP_ID

(* The first loop over the files: those of the existing groups are spliced *)
(* in at once.                                                             *)
RECURSIVE AMFA_ExistingGroups(_, _)
AMFA_ExistingGroups(d, es) ==
    IF es = << >> THEN d
    ELSE IF /\ Head(es).dir \in {"Models", "DesignSystem"}
            /\ AMFA_ExistingGroupMatch(d, AMFA_TargetOfDir(Head(es).dir)) # {}
         THEN AMFA_ExistingGroups(
                  Stray(AppendChildren(d, {Len(d.groups)},
                                       << Entry(Head(es).fr, Head(es).name) >>), 1),
                  Tail(es))
         ELSE AMFA_ExistingGroups(d, Tail(es))

PrependChild(d, T, e) ==
    [d EXCEPT !.groups =
        [i \in DOMAIN d.groups |->
            IF i \in T THEN [d.groups[i] EXCEPT !.children = <<e>> \o @]
            ELSE d.groups[i]]]

(* "for ref in file_references: if file_name in ref": the identifier of the *)
(* first reference whose text holds the name.                               *)
AMFA_FoundUuid(es, name) ==
    es[CHOOSE i \in DOMAIN es :
          /\ IsSuffix(name, es[i].name)
          /\ \A j \in 1..(i - 1) : ~IsSuffix(name, es[j].name)].fr

GroupIndexOfName(name) ==
    CHOOSE k \in DOMAIN NewGroupNames : NewGroupNames[k] = name

\* rf'({group_uuid} /\* {group_name} \*/ = \{{\s+isa = PBXGroup;\s+children = \(\s+)'
\* ends behind the opening of the list: the entry goes in front.
AMFA_IntoNewGroup(d, e, es, gids) ==
    IF e.dir \in Range(NewGroupNames)
       /\ GroupMatch(d, gids[GroupIndexOfName(e.dir)], e.dir) # {}
    THEN Stray(PrependChild(d, GroupMatch(d, gids[GroupIndexOfName(e.dir)], e.dir),
                            Entry(AMFA_FoundUuid(es, e.name), e.name)), 1)
    ELSE d

(* The last loop over the files: those of the new groups. *)
RECURSIVE AMFA_NewGroups(_, _, _, _)
AMFA_NewGroups(d, rest, es, gids) ==
    IF rest = << >> THEN d
    ELSE AMFA_NewGroups(AMFA_IntoNewGroup(d, Head(rest), es, gids),
                        Tail(rest), es, gids)

AMFA_new_group_entries(gids) ==
    [k \in DOMAIN NewGroupNames |-> Group(gids[k], NewGroupNames[k], << >>)]

AMFA_Insert(d, es, gids) ==
    InsertMembers(
      InsertBuildFiles(
        InsertFileReferences(
          AMFA_NewGroups(
            InsertChildren(
              InsertGroups(AMFA_ExistingGroups(d, es), AMFA_new_group_entries(gids)),
              CORE_GROUP_ID, "Core", GroupRefs(gids)),
            es, es, gids),
          FileRefsOf(es, FALSE)),
        BuildFilesOf(es)),
      MembersOf(es))

AMFA_add_files_to_xcode_project(d, fl) ==
    [doc |-> AMFA_Insert(d,
                 AssignIds(fl, UsedIds(d) \cup Range(DrawIds(Len(NewGroupNames), UsedIds(d))),
                           TRUE),
                 DrawIds(Len(NewGroupNames), UsedIds(d))),
     wrote |-> TRUE, outcome |-> "ok", report |-> ReportOf(fl, Range(fl), {})]

---------------------------------------------------------------------------
(* The scripts that register one fixed file *)

OneReport(path) == << [path |-> path, res |-> "added"] >>

(* add_animation_system.py *)
AAS_Insert(d, file_uuid, build_uuid) ==
    InsertMembers(
      InsertChildren(
        InsertBuildFiles(
          InsertFileReferences(d, << FileRef(file_uuid, AnimationSystem, NoDir) >>),
          << BuildFile(build_uuid, file_uuid, AnimationSystem) >>),
        DESIGN_SYSTEM_GROUP_ID, "DesignSystem", << Entry(file_uuid, AnimationSystem) >>),
      << Entry(build_uuid, AnimationSystem) >>)

AAS_main(d) ==
    LET animation_file_uuid == generate_uuid(UsedIds(d))
        animation_build_uuid == generate_uuid(UsedIds(d) \cup {animation_file_uuid})
    IN  [doc |-> AAS_Insert(d, animation_file_uuid, animation_build_uuid),
         wrote |-> TRUE, outcome |-> "ok",
         report |-> OneReport(Path("DesignSystem", AnimationSystem))]

(* add_appmodels.py *)

(* content.find('/\\* Models \\*/ = {'): the needle of str.find is no      *)
(* pattern, its backslashes are text, so it is found only in a header      *)
(* written with them.                                                      *)
BackslashedHeaderFound(form) == form = "backslashed"

PrependMember(d, T, e) ==
    [d EXCEPT !.phases =
        [i \in DOMAIN d.phases |->
            IF i \in T THEN [d.phases[i] EXCEPT !.files = <<e>> \o @]
            ELSE d.phases[i]]]

(* Behind the line of 'children = (' of the first group headed Models *)
AAM_Group(d, file_ref_id) ==
    IF BackslashedHeaderFound(HeaderForm)
    THEN PrependChild(d, First({ g \in DOMAIN d.groups : d.groups[g].name = "Models" }),
                      Entry(file_ref_id, AppModels))
    ELSE d

(* Behind the line of '/* Begin PBXFileReference section */' *)
AAM_FileRef(d, file_ref_id) ==
    IF StdMarkerFound(d.mk.frBegin)
    THEN [d EXCEPT !.fr = << FileRef(file_ref_id, AppModels, NoDir) >> \o @]
    ELSE d

(* Behind the line of '/* Begin PBXBuildFile section */' *)
AAM_BuildFile(d, file_ref_id, build_file_id) ==
    IF StdMarkerFound(d.mk.bfBegin)
    THEN [d EXCEPT !.bf = << BuildFile(build_file_id, file_ref_id, AppModels) >> \o @]
    ELSE d

(* Behind the line of 'files = (' after the first 'isa = PBXSourcesBuildPhase;' *)
AAM_Sources(d, build_file_id) ==
    PrependMember(d, First(SourcesPhases(d)), Entry(build_file_id, AppModels))

add_appmodels_to_project(d) ==
    LET file_ref_id == generate_uuid(UsedIds(d))
        build_file_id == generate_uuid(UsedIds(d) \cup {file_ref_id})
    IN  [doc |-> AAM_Sources(
                   AAM_BuildFile(
                     AAM_FileRef(AAM_Group(d, file_ref_id), file_ref_id),
                     file_ref_id, build_file_id),
                   build_file_id),
         wrote |-> TRUE, outcome |-> "ok",
         report |-> OneReport(Path("Models", AppModels))]

(* add_network_types.py *)

(* content.replace of the End marker by the new line and the marker, the   *)
(* marker now behind a tab.                                                *)
ANT_FileRef(d, ref) ==
    IF StdMarkerFound(d.mk.frBegin) /\ StdMarkerFound(d.mk.frEnd)
    THEN Stray([d EXCEPT !.fr = Append(@, FileRef(ref, NetworkTypes, NoDir))], 1)
    ELSE d

(* The first group headed Shared: its children, stripped, and the entry. *)
ANT_Group(d, ref) ==
    AppendChild(d, First({ g \in DOMAIN d.groups : d.groups[g].name = "Shared" }),
                Entry(ref, NetworkTypes))

(* Inside "if lyoapp_target_match": the BuildFile line, if both markers of *)
(* its section are found.                                                  *)
ANT_BuildFile(d, ref, build_ref) ==
    IF SourcesPhases(d) # {} /\ StdMarkerFound(d.mk.bfBegin) /\ StdMarkerFound(d.mk.bfEnd)
    THEN Stray([d EXCEPT !.bf = Append(@, BuildFile(build_ref, ref, NetworkTypes))], 1)
    ELSE d

(* The first Sources phase is rewritten up to its list with fixed          *)
(* attributes (form "rewritten"): the attributes in front of the list are  *)
(* replaced, and what followed the list stays, so one attribute line is    *)
(* there twice.                                                            *)
ANT_Sources(d, build_ref) ==
    IF SourcesPhases(d) # {}
    THEN Stray([AppendMember(d, First(SourcesPhases(d)), Entry(build_ref, NetworkTypes))
                  EXCEPT !.phases[CHOOSE p \in First(SourcesPhases(d)) : TRUE].form =
                             "rewritten"], 1)
    ELSE d

ANT_main(d) ==
    LET api_models_match ==
            \E i \in DOMAIN d.fr : d.fr[i].name = APIModels /\ d.fr[i].dir = NoDir
        network_types_ref == generate_uuid(UsedIds(d))
        network_types_build_ref == generate_uuid(UsedIds(d) \cup {network_types_ref})
    IN  IF ~api_models_match
        THEN [doc |-> d, wrote |-> FALSE, outcome |-> "early", report |-> << >>]
        ELSE [doc |-> ANT_Sources(
                        ANT_BuildFile(
                          ANT_Group(ANT_FileRef(d, network_types_ref), network_types_ref),
                          network_types_ref, network_types_build_ref),
                        network_types_build_ref),
              wrote |-> TRUE, outcome |-> "ok",
              report |-> OneReport(Path("Shared", NetworkTypes))]

(* add_networking_protocols_manual.py *)

(* content.replace(anchor, anchor + new entry): behind every occurrence *)
RECURSIVE InsertAfterAll(_, _, _)
InsertAfterAll(s, anchor, e) ==
    IF s = << >> THEN << >>
    ELSE IF Head(s) = anchor
         THEN << Head(s), e >> \o InsertAfterAll(Tail(s), anchor, e)
         ELSE << Head(s) >> \o InsertAfterAll(Tail(s), anchor, e)

(* "EB1AB25F7A8A449FB806F6BB /* EnhancedNetworkManager.swift */," *)
ANPM_Group(d, file_uuid) ==
    [d EXCEPT !.groups =
        [g \in DOMAIN d.groups |->
            [d.groups[g] EXCEPT !.children =
                InsertAfterAll(@, Entry(NETWORK_MANAGER_REF_ID, EnhancedNetworkManager),
                               Entry(file_uuid, NetworkingProtocols))]]]

(* "7CCDE3E310FD4F9C9D863936 /* ErrorTypes.swift in Sources */," *)
ANPM_Sources(d, build_uuid) ==
    [d EXCEPT !.phases =
        [p \in DOMAIN d.phases |->
            [d.phases[p] EXCEPT !.files =
                InsertAfterAll(@, Entry(ERROR_TYPES_BUILD_ID, ErrorTypes),
                               Entry(build_uuid, NetworkingProtocols))]]]

ANPM_main(d) ==
    LET file_uuid == generate_uuid(UsedIds(d))
        build_uuid == generate_uuid(UsedIds(d) \cup {file_uuid})
    IN  [doc |-> ANPM_Sources(
                   ANPM_Group(
                     InsertBuildFiles(
                       InsertFileReferences(d,
                           << FileRef(file_uuid, NetworkingProtocols, NoDir) >>),
                       << BuildFile(build_uuid, file_uuid, NetworkingProtocols) >>),
                     file_uuid),
                   build_uuid),
         wrote |-> TRUE, outcome |-> "ok",
         report |-> OneReport(Path("Networking", NetworkingProtocols))]

---------------------------------------------------------------------------
(* add_missing_files_to_xcode.py *)

InsertAt(s, i, e) == SubSeq(s, 1, i) \o << e >> \o SubSeq(s, i + 1, Len(s))

(* Behind the first line of the form of a BuildFile "in Sources" *)
AMFX_BuildFile(d, b) ==
    IF d.bf # << >> THEN [d EXCEPT !.bf = InsertAt(@, 1, b)] ELSE d

(* Behind the first FileReference line with a bare "path = X.swift;" *)
AMFX_FileRef(d, f) ==
    IF \E i \in DOMAIN d.fr : d.fr[i].dir = NoDir
    THEN [d EXCEPT !.fr =
            InsertAt(@, CHOOSE i \in DOMAIN d.fr :
                            /\ d.fr[i].dir = NoDir
                            /\ \A j \in 1..(i - 1) : d.fr[j].dir # NoDir, f)]
    ELSE d

\* r'(/* Services */ = \{[^}]+children = \([^)]+)', re.sub
AMFX_Group(d, e, dir) ==
    IF UnescapedMarkerRe(HeaderForm)
    THEN AppendChild(d, { g \in DOMAIN d.groups : d.groups[g].name = dir }, e)
    ELSE d

\* r'(/* Sources */ = \{[^}]+files = \([^)]+)', re.sub
AMFX_Sources(d, e) ==
    IF UnescapedMarkerRe(HeaderForm) THEN AppendMember(d, SourcesPhases(d), e) ELSE d

(* add_file_to_xcode_project: reads the project file itself and returns    *)
(* the patched text.                                                       *)
AMFX_add_file_to_xcode_project(d, req) ==
    LET file_ref_uuid == generate_uuid(UsedIds(d))
        build_file_uuid == generate_uuid(UsedIds(d) \cup {file_ref_uuid})
    IN  AMFX_Sources(
          AMFX_Group(
            AMFX_FileRef(
              AMFX_BuildFile(d, BuildFile(build_file_uuid, file_ref_uuid, req.name)),
              FileRef(file_ref_uuid, req.name, NoDir)),
            Entry(file_ref_uuid, req.name), req.dir),
          Entry(build_file_uuid, req.name))

(* main: every call starts from the file on disk, and only the text the    *)
(* last call returned is written.                                          *)
AMFX_main(d, fl) ==
    IF fl = << >>
    THEN [doc |-> d, wrote |-> FALSE, outcome |-> "early", report |-> << >>]
    ELSE [doc |-> AMFX_add_file_to_xcode_project(d, fl[Len(fl)]),
          wrote |-> TRUE, outcome |-> "ok", report |-> ReportOf(fl, Range(fl), {})]

---------------------------------------------------------------------------
(* add_networking_protocols.py: the lines of add_animation_system.py with  *)
(* another file, and the Networking group as the target.                   *)
ANP_Insert(d, file_uuid, build_uuid) ==
    InsertMembers(
      InsertChildren(
        InsertBuildFiles(
          InsertFileReferences(d, << FileRef(file_uuid, NetworkingProtocols, NoDir) >>),
          << BuildFile(build_uuid, file_uuid, NetworkingProtocols) >>),
        NETWORKING_GROUP_ID, "Networking", << Entry(file_uuid, NetworkingProtocols) >>),
      << Entry(build_uuid, NetworkingProtocols) >>)

ANP_main(d) ==
    LET file_uuid == generate_uuid(UsedIds(d))
        build_uuid == generate_uuid(UsedIds(d) \cup {file_uuid})
    IN  [doc |-> ANP_Insert(d, file_uuid, build_uuid),
         wrote |-> TRUE, outcome |-> "ok",
         report |-> OneReport(Path("Networking", NetworkingProtocols))]

---------------------------------------------------------------------------
(* add_missing_files_simple.py: the steps of add_missing_files.py; the     *)
(* target group of a listed file is searched by its identifier, whatever   *)
(* its name: rf'({target_group_id} /\* [^*]+ \*/ = ...'.                   *)
AMFS_InsertChildren(d, id, cs) ==
    IF cs # << >> /\ First({ g \in DOMAIN d.groups : d.groups[g].id = id }) # {}
    THEN Stray(AppendChildren(d, First({ g \in DOMAIN d.groups : d.groups[g].id = id }),
                              cs), 1)
    ELSE d

AMFS_Insert(d, es, gids) ==
    InsertMembers(
      InsertChildren(
        AMFS_InsertChildren(
          AMFS_InsertChildren(
            InsertGroups(
              InsertBuildFiles(
                InsertFileReferences(d, FileRefsOf(es, FALSE)),
                BuildFilesOf(es)),
              AMF_new_group_entries(es, gids)),
            CORE_MODELS_GROUP_ID, ChildrenOf(InDir(es, "Models"))),
          DESIGN_SYSTEM_GROUP_ID, ChildrenOf(InDir(es, "DesignSystem"))),
        CORE_GROUP_ID, "Core", GroupRefs(gids)),
      MembersOf(es))

AMFS_add_files_to_xcode_project(d, fl) ==
    [doc |-> AMFS_Insert(d, AssignIds(fl, UsedIds(d), TRUE),
                         DrawIds(Len(NewGroupNames),
                                 UsedIds(d) \cup IdsOf(AssignIds(fl, UsedIds(d), TRUE)))),
     wrote |-> TRUE, outcome |-> "ok", report |-> ReportOf(fl, Range(fl), {})]

---------------------------------------------------------------------------
(* add_shared_files_to_project.py.  Its source compiles from Python 3.12   *)
(* on (a backslash inside an f-string expression, line 86); before that    *)
(* the run ends with a SyntaxError, as Raise has it.                       *)

(* shared_files: the list is hard-coded and no file is looked for on disk. *)
(* The first entries of the list; the others are treated the same.         *)
ASFP_shared_files == << Path("Shared", ErrorTypes), Path("Shared", APIModels) >>

\* r'(\w+) \/\* Core \*\/ = \{[^}]+children = \([^)]+\);', re.search
ASFP_CoreGroup(d) == First({ g \in DOMAIN d.groups : d.groups[g].name = "Core" })

(* Lines 60-95: when the children of Core name no "/* Shared */", a Shared *)
(* group holding the files is made: its reference goes behind the children *)
(* of Core (content.replace: of every group with the same children text)   *)
(* and its definition in front of the End PBXGroup marker.  When Core      *)
(* names a Shared group, no group is touched.                              *)
ASFP_SharedGroup(d, es, shared_group_uuid) ==
    IF ASFP_CoreGroup(d) = {}
    THEN d
    ELSE LET children_content == d.groups[CHOOSE c \in ASFP_CoreGroup(d) : TRUE].children
         IN  IF \E i \in DOMAIN children_content :
                    children_content[i].name = GroupLabel("Shared")
             THEN d
             ELSE InsertGroups(
                    AppendChild(d, { g \in DOMAIN d.groups :
                                        d.groups[g].children = children_content },
                                Entry(shared_group_uuid, GroupLabel("Shared"))),
                    << Group(shared_group_uuid, "Shared", ChildrenOf(es)) >>)

(* Lines 97-128: the records go in behind the Begin markers. *)
ASFP_Records(d, es) ==
    [d EXCEPT !.fr = IF StdMarkerFound(d.mk.frBegin)
                     THEN FileRefsOf(es, FALSE) \o @ ELSE @,
              !.bf = IF StdMarkerFound(d.mk.bfBegin)
                     THEN BuildFilesOf(es) \o @ ELSE @]

(* Lines 131-148: r'(\w+) \/\* Sources \*\/ = \{[^}]+files = \(([^)]+)\);', *)
(* re.search, then content.replace of "files = (...);": every phase whose  *)
(* list reads like that of the first Sources phase gets the members, and a *)
(* "," or an empty line in front of them.                                  *)
ASFP_SourcesTargets(d) ==
    { p \in DOMAIN d.phases :
        \E q \in First(SourcesPhases(d)) : d.phases[p].files = d.phases[q].files }

ASFP_Sources(d, es) ==
    Stray(AppendMembers(d, ASFP_SourcesTargets(d), MembersOf(es)),
          Cardinality(ASFP_SourcesTargets(d)))

(* main_group_pattern r'(\w+) \/\* LyoApp \*\/ = \{' also finds the header  *)
(* of the native target LyoApp, which every document of the project has;   *)
(* sources_build_phase_pattern finds the first Sources phase.              *)
ASFP_add_files_to_xcode_project(d, fl) ==
    IF SourcesPhases(d) = {}
    THEN [doc |-> d, wrote |-> FALSE, outcome |-> "early",
          report |-> ReportOf(fl, {}, {})]
    ELSE [doc |-> ASFP_Sources(
                    ASFP_Records(
                      ASFP_SharedGroup(d, AssignIds(fl, UsedIds(d), TRUE),
                          generate_uuid(UsedIds(d)
                              \cup IdsOf(AssignIds(fl, UsedIds(d), TRUE)))),
                      AssignIds(fl, UsedIds(d), TRUE)),
                    AssignIds(fl, UsedIds(d), TRUE)),
          wrote |-> TRUE, outcome |-> "ok", report |-> ReportOf(fl, Range(fl), {})]

---------------------------------------------------------------------------
(* fix_file_paths.py *)

(* files_to_fix: the simple name and the path it is to have (the           *)
(* directory of the path stands for it).                                   *)
FFP_files_to_fix ==
    { Path("Shared", ErrorTypes), Path("Networking", EnhancedNetworkManager),
      Path("Networking", NetworkingProtocols), Path("Services", EnhancedAIService),
      Path("Services", AIService), Path("Models", AppModels) }

(* The replacement without the identifier it matched: every rewritten line *)
(* starts with the same text.                                              *)
FFP_FixLosesId(d) ==
    [d EXCEPT !.fr =
        [i \in DOMAIN d.fr |->
            IF d.fr[i].dir = NoDir /\ \E f \in FFP_files_to_fix : f.name = d.fr[i].name
            THEN [d.fr[i] EXCEPT !.id = 0,
                                 !.dir = (CHOOSE f \in FFP_files_to_fix :
                                             f.name = d.fr[i].name).dir]
            ELSE d.fr[i]]]

(* Lines 57-65: re.sub over every FileReference line of the simple name    *)
(* whose path is the bare name; the path becomes correct_path.  A          *)
(* FileReference line with a bare path has the form the pattern spells.    *)
FFP_Fix(d) ==
    [d EXCEPT !.fr =
        [i \in DOMAIN d.fr |->
            IF d.fr[i].dir = NoDir /\ \E f \in FFP_files_to_fix : f.name = d.fr[i].name
            THEN [d.fr[i] EXCEPT !.dir =
                     (CHOOSE f \in FFP_files_to_fix : f.name = d.fr[i].name).dir]
            ELSE d.fr[i]]]

(* The script registers nothing and reports on no request. *)
fix_file_paths_in_xcode_project(d) ==
    [doc |-> FFP_Fix(d), wrote |-> TRUE, outcome |-> "ok", report |-> << >>]

---------------------------------------------------------------------------
(* Starting documents *)

BaseGroups ==
    << Group(CORE_GROUP_ID, "Core",
             << Entry(CORE_MODELS_GROUP_ID, GroupLabel("Models")),
                Entry(SERVICES_GROUP_ID, GroupLabel("Services")),
                Entry(SHARED_GROUP_ID, GroupLabel("Shared")) >>),
       Group(CORE_MODELS_GROUP_ID, "Models", << >>),
       Group(DESIGN_SYSTEM_GROUP_ID, "DesignSystem", << >>),
       Group(SERVICES_GROUP_ID, "Services", << >>),
       Group(SHARED_GROUP_ID, "Shared", << >>) >>

PhaseLayouts ==
    { << Phase(FRAMEWORKS_PHASE_ID, "Frameworks", << >>),
         Phase(SOURCES_PHASE_ID, "Sources", << >>) >>,
      << Phase(SOURCES_PHASE_ID, "Sources", << >>),
         Phase(OTHER_PHASE_ID, "Sources", << >>) >>,
      << Phase(OTHER_PHASE_ID, "Sources", << >>) >> }

MarkerLayouts ==
    { StdMarkers,
      [StdMarkers EXCEPT !.bfEnd = "absent"],
      [StdMarkers EXCEPT !.frEnd = "absent"],
      [StdMarkers EXCEPT !.grpEnd = "absent"] }

EmptyDoc(mk, phases) ==
    [mk |-> mk, bf |-> << >>, fr |-> << >>, groups |-> BaseGroups,
     phases |-> phases, ws |-> 0]

LastSources(d) ==
    IF SourcesPhases(d) = {} THEN {}
    ELSE { CHOOSE i \in SourcesPhases(d) : \A j \in SourcesPhases(d) : j <= i }

(* A file registered the way Xcode does it: FileReference, child of its    *)
(* group and, if built, BuildFile and member of the target's Sources phase. *)
WithFile(d, id, name, grp, built) ==
    IF built
    THEN AppendMember(
             AppendChild([d EXCEPT !.fr = Append(@, FileRef(id, name, NoDir)),
                                   !.bf = Append(@, BuildFile(id + 1, id, name))],
                         { g \in DOMAIN d.groups : d.groups[g].id = grp },
                         Entry(id, name)),
             LastSources(d), Entry(id + 1, name))
    ELSE AppendChild([d EXCEPT !.fr = Append(@, FileRef(id, name, NoDir))],
                     { g \in DOMAIN d.groups : d.groups[g].id = grp },
                     Entry(id, name))

(* A project whose Core group has no Shared group yet. *)
WithoutShared(d) ==
    LET kept == SeqFilter(d.groups,
                          { g \in Range(d.groups) : g.id # SHARED_GROUP_ID })
    IN  [d EXCEPT !.groups =
            [g \in DOMAIN kept |->
                IF kept[g].id = CORE_GROUP_ID
                THEN [kept[g] EXCEPT !.children =
                        SeqFilter(@, { e \in Range(@) : e.id # SHARED_GROUP_ID })]
                ELSE kept[g]]]

(* What a starting document holds: nothing; the requested AIService.swift, *)
(* built or referenced only; an AIService.swift of another directory; a    *)
(* file whose name contains that name; the files the single-file scripts   *)
(* look for; an AIService.swift in each of two groups; no Shared group.    *)
Contents(d) ==
    { d,
      WithFile(d, DocIdBase, AIService, SERVICES_GROUP_ID, TRUE),
      WithFile(d, DocIdBase, AIService, SERVICES_GROUP_ID, FALSE),
      WithFile(d, DocIdBase, AIService, SHARED_GROUP_ID, TRUE),
      WithFile(d, DocIdBase, EnhancedAIService, SERVICES_GROUP_ID, TRUE),
      WithFile(WithFile(WithFile(d, ERROR_TYPES_BUILD_ID - 1, ErrorTypes,
                                 SHARED_GROUP_ID, TRUE),
                        NETWORK_MANAGER_REF_ID, EnhancedNetworkManager,
                        SHARED_GROUP_ID, FALSE),
               DocIdBase, APIModels, CORE_MODELS_GROUP_ID, FALSE),
      WithFile(WithFile(d, DocIdBase, AIService, SERVICES_GROUP_ID, TRUE),
               DocIdBase + 2, AIService, SHARED_GROUP_ID, TRUE),
      WithoutShared(d) }

StartDocs ==
    UNION { Contents(EmptyDoc(mk, ph)) : mk \in MarkerLayouts, ph \in PhaseLayouts }

---------------------------------------------------------------------------
(* The scripts as runs *)

(* Scripts that read, patch and write the project file once per request. *)
PerRequestScripts ==
    { "add_files_to_project", "add_additional_files", "fix_project_correctly",
      "add_missing_files_to_project" }

(* Scripts that read once, patch for the whole list and write once. *)
BatchScripts ==
    { "comprehensive_fix", "fix_project_file_final", "add_critical_missing_files",
      "add_missing_files", "add_missing_files_advanced", "add_missing_files_fixed",
      "add_missing_files_to_xcode", "add_missing_files_simple",
      "add_shared_files_to_project", "fix_paths_correctly" }

(* The script that rewrites paths. *)
RewriteScripts == { "fix_file_paths" }

(* Scripts that register one fixed file. *)
SingleFileScripts ==
    { "add_animation_system", "add_appmodels", "add_network_types",
      "add_networking_protocols_manual", "add_networking_protocols" }

Scripts ==
    PerRequestScripts \cup BatchScripts \cup SingleFileScripts \cup RewriteScripts

(* The request lists a run of the script can have. *)
RequestLists(s) ==
    CASE s = "fix_project_correctly" -> { ListedFiles }   \* no os.path.exists
      [] s = "fix_project_file_final" -> WalkLists
      [] s = "add_animation_system" -> { << Path("DesignSystem", AnimationSystem) >> }
      [] s = "add_appmodels" -> { << Path("Models", AppModels) >> }
      [] s = "add_network_types" -> { << Path("Shared", NetworkTypes) >> }
      [] s \in { "add_networking_protocols_manual", "add_networking_protocols" } ->
             { << Path("Networking", NetworkingProtocols) >> }
      [] s = "add_shared_files_to_project" -> { ASFP_shared_files }
      [] s = "fix_file_paths" -> { << >> }
      [] OTHER -> ExistingLists

(* The backup left out where no handler reads it. *)
BackupOnlyWithHandler(s, fl) ==
    s \in { "add_files_to_project", "fix_project_correctly", "comprehensive_fix",
            "fix_paths_correctly" }

(* Scripts that copy the project file to a backup before they patch. *)
TakesBackup(s, fl) ==
    \/ s \in { "add_files_to_project", "fix_project_correctly",
               "add_missing_files_to_project", "comprehensive_fix",
               "fix_project_file_final", "add_critical_missing_files",
               "add_missing_files", "add_missing_files_advanced",
               "add_missing_files_fixed", "add_missing_files_simple",
               "fix_paths_correctly" }
    \/ s = "add_missing_files_to_xcode" /\ fl # << >>

(* The handler restoring only where the whole batch is written at once. *)
RestoresOnlyBatch(s) == s \in { "comprehensive_fix", "fix_paths_correctly" }

(* Scripts whose except-handler copies the backup over the project file. *)
RestoresOnError(s) ==
    s \in { "add_files_to_project", "fix_project_correctly", "comprehensive_fix",
            "fix_paths_correctly" }

(* Scripts that count the names in the written file at the end. *)
Verifies(s) ==
    s \in { "fix_project_correctly", "comprehensive_fix", "fix_paths_correctly" }

Add(s, d, req) ==
    CASE s = "add_files_to_project" -> AFP_add(d, req)
      [] s = "add_additional_files" -> AAF_add(d, req)
      [] s = "fix_project_correctly" -> FPC_add(d, req)
      [] s = "add_missing_files_to_project" -> AMFP_add(d, req)

Run(s, d, fl) ==
    CASE s \in { "comprehensive_fix", "fix_paths_correctly" } ->
             CF_add_files_to_xcode_project(d, fl)
      [] s = "fix_project_file_final" -> FPFF_main(d, fl)
      [] s = "add_critical_missing_files" -> ACMF_main(d, fl)
      [] s = "add_missing_files" -> AMF_add_files_to_xcode_project(d, fl)
      [] s = "add_missing_files_advanced" -> AMFA_add_files_to_xcode_project(d, fl)
      [] s = "add_missing_files_fixed" -> AMFF_add_files_to_xcode_project(d, fl)
      [] s = "add_missing_files_to_xcode" -> AMFX_main(d, fl)
      [] s = "add_animation_system" -> AAS_main(d)
      [] s = "add_appmodels" -> add_appmodels_to_project(d)
      [] s = "add_network_types" -> ANT_main(d)
      [] s = "add_networking_protocols_manual" -> ANPM_main(d)
      [] s = "add_networking_protocols" -> ANP_main(d)
      [] s = "add_missing_files_simple" -> AMFS_add_files_to_xcode_project(d, fl)
      [] s = "add_shared_files_to_project" -> ASFP_add_files_to_xcode_project(d, fl)
      [] s = "fix_file_paths" -> fix_file_paths_in_xcode_project(d)

VerifyOf(s, d, fl) ==
    CASE s = "comprehensive_fix" -> CF_verify(d, fl)
      [] s = "fix_paths_correctly" -> FPCP_verify(d)
      [] OTHER -> FPC_verify(d, fl)

NoRun == [script |-> "none", start |-> << >>, out |-> << >>, outcome |-> "none"]

Init ==
    /\ disk \in StartDocs
    /\ backup = << >>
    /\ pc = "idle"
    /\ script = "none"
    /\ queue = << >>
    /\ start = << >>
    /\ files = << >>
    /\ report = << >>
    /\ nwrites = 0
    /\ outcome = "none"
    /\ verdict = "none"
    /\ hist = NoRun
    /\ runs = 0
    /\ drawn = << >>

(* The first lines of a script: the request list is fixed, the backup is    *)
(* taken.                                                                   *)
Launch(s, fl) ==
    /\ runs < MaxRuns
    /\ runs' = runs + 1
    /\ script' = s
    /\ files' = fl
    /\ queue' = fl
    /\ start' = disk
    /\ report' = << >>
    /\ nwrites' = 0
    /\ outcome' = "running"
    /\ verdict' = "none"
    /\ backup' = IF TakesBackup(s, fl) THEN <<disk>> ELSE backup
    /\ pc' = IF s \in PerRequestScripts THEN "loop" ELSE "commit"
    /\ UNCHANGED <<disk, drawn>>

(* A script is started on the project. *)
Begin(s, fl) ==
    /\ pc = "idle"
    /\ Launch(s, fl)
    /\ UNCHANGED hist

(* The same script is started again, with the same files present. *)
Rerun ==
    /\ pc = "done"
    /\ Launch(script, files)
    /\ hist' = [script |-> script, start |-> <<start>>, out |-> <<disk>>,
                outcome |-> outcome]

(* One turn of the loop of a script that reads, patches and writes the     *)
(* project file once per request.                                          *)
RequestStep ==
    /\ pc = "loop"
    /\ queue # << >>
    /\ LET r == Add(script, disk, Head(queue))
       IN  /\ disk' = r.doc
           /\ nwrites' = IF r.wrote THEN nwrites + 1 ELSE nwrites
           /\ report' = Append(report, [path |-> Head(queue), res |-> r.res])
    /\ queue' = Tail(queue)
    /\ UNCHANGED <<backup, pc, script, start, files, outcome, verdict, hist, runs,
                   drawn>>

(* The loop is through. *)
LoopEnd ==
    /\ pc = "loop"
    /\ queue = << >>
    /\ IF Verifies(script)
       THEN pc' = "verify" /\ UNCHANGED outcome
       ELSE pc' = "done" /\ outcome' = "ok"
    /\ UNCHANGED <<disk, backup, script, queue, start, files, report, nwrites,
                   verdict, hist, runs, drawn>>

(* A script that patches for the whole list: read, patch, write (or return *)
(* early, or die of an exception of its own making).                       *)
Commit ==
    /\ pc = "commit"
    /\ LET r == Run(script, disk, files)
       IN  /\ disk' = r.doc
           /\ nwrites' = IF r.wrote THEN nwrites + 1 ELSE nwrites
           /\ report' = r.report
           /\ IF Verifies(script)
              THEN pc' = "verify" /\ UNCHANGED outcome
              ELSE pc' = "done" /\ outcome' = r.outcome
    /\ queue' = << >>
    /\ UNCHANGED <<backup, script, start, files, verdict, hist, runs, drawn>>

(* The script's verification after its writes: it prints, nothing more. *)
Verify ==
    /\ pc = "verify"
    /\ verdict' = VerifyOf(script, disk, files)
    /\ pc' = "done"
    /\ outcome' = "ok"
    /\ UNCHANGED <<disk, backup, script, queue, start, files, report, nwrites,
                   hist, runs, drawn>>

(* An exception (an I/O error on the next open, read or write) ends the   *)
(* run where it stands; a handler that restores the backup does so.       *)
Raise ==
    /\ pc \in {"loop", "commit", "verify"}
    /\ pc' = "done"
    /\ IF RestoresOnError(script)
       THEN disk' = backup[1] /\ outcome' = "restored"
       ELSE UNCHANGED disk /\ outcome' = "raised"
    /\ UNCHANGED <<backup, script, queue, start, files, report, nwrites,
                   verdict, hist, runs, drawn>>

Next ==
    \/ \E s \in Scripts : \E fl \in RequestLists(s) : Begin(s, fl)
    \/ Rerun
    \/ RequestStep
    \/ LoopEnd
    \/ Commit
    \/ Verify
    \/ Raise

Spec == Init /\ [][Next]_vars

---------------------------------------------------------------------------
(* The identifier generator by itself.  In Spec a draw is taken to be      *)
(* fresh; GenSpec runs three scripts whose loops draw the identifiers of   *)
(* a whole batch, one generate_uuid() call per step, with a draw that can  *)
(* return any token: uuid.uuid4() and random.randint() take no argument    *)
(* and do not look at the document or at earlier draws.                    *)

MaxToken == 2        \* tokens that occur in no starting document
MaxGenFiles == 1     \* requests of a run of GenSpec

(* What a draw can return: a token no starting document holds, one that   *)
(* every starting document holds (the Core group's identifier), or one     *)
(* that some hold (the identifier of a registered file's FileReference).   *)
Tokens == 1..MaxToken \cup {CORE_GROUP_ID, DocIdBase}

GenScripts ==
    { "add_missing_files", "fix_project_file_final", "add_missing_files_fixed" }

GenLists(s) ==
    { fl \in (IF s = "fix_project_file_final" THEN WalkLists ELSE ExistingLists) :
        Len(fl) <= MaxGenFiles }

(* fix_project_file_final.py returns before its loop when nothing is       *)
(* missing or a section or the phase is not found.                         *)
FPFF_missing_files(d, fl) ==
    IF /\ StdMarkerFound(d.mk.bfBegin) /\ StdMarkerFound(d.mk.bfEnd)
       /\ StdMarkerFound(d.mk.frBegin) /\ StdMarkerFound(d.mk.frEnd)
       /\ PrimaryPhase(d) # {}
    THEN SeqFilter(fl, { r \in Range(fl) : ~CommentInContent(d, r.name) })
    ELSE << >>

RECURSIVE DrawsPerFile(_, _)
DrawsPerFile(reqs, kinds) ==
    IF reqs = << >> THEN << >>
    ELSE << [for |-> kinds[1], of |-> Head(reqs).name],
            [for |-> kinds[2], of |-> Head(reqs).name] >>
         \o DrawsPerFile(Tail(reqs), kinds)

(* The generate_uuid() calls of a run, in the order the script makes them: *)
(* add_missing_files.py draws file and build identifier per file, then one *)
(* identifier per new group; add_missing_files_fixed.py draws file and     *)
(* build identifier per file; fix_project_file_final.py draws build and    *)
(* file identifier per missing file.                                       *)
DrawList(s, d, fl) ==
    CASE s = "add_missing_files" ->
             DrawsPerFile(fl, <<"file", "build">>)
             \o [k \in DOMAIN NewGroupNames |->
                    [for |-> "group", of |-> <<NewGroupNames[k]>>]]
      [] s = "add_missing_files_fixed" -> DrawsPerFile(fl, <<"file", "build">>)
      [] OTHER -> DrawsPerFile(FPFF_missing_files(d, fl), <<"build", "file">>)

(* The entries of the batch with the identifiers that were drawn for them. *)
DrawnEntries(reqs, ids, frFirst) ==
    [i \in DOMAIN reqs |->
        [name |-> reqs[i].name, dir |-> reqs[i].dir,
         fr |-> IF frFirst THEN ids[2 * i - 1] ELSE ids[2 * i],
         bf |-> IF frFirst THEN ids[2 * i] ELSE ids[2 * i - 1]]]

GenInit ==
    /\ disk \in StartDocs
    /\ backup = << >>
    /\ pc = "idle"
    /\ script = "none"
    /\ queue = << >>
    /\ start = << >>
    /\ files = << >>
    /\ report = << >>
    /\ nwrites = 0
    /\ outcome = "none"
    /\ verdict = "none"
    /\ hist = NoRun
    /\ runs = 0
    /\ drawn = << >>

GenBegin(s, fl) ==
    /\ pc = "idle"
    /\ pc' = "draw"
    /\ script' = s
    /\ files' = fl
    /\ start' = disk
    /\ backup' = <<disk>>
    /\ queue' = DrawList(s, disk, fl)
    /\ drawn' = << >>
    /\ outcome' = "running"
    /\ runs' = runs + 1
    /\ UNCHANGED <<disk, report, nwrites, verdict, hist>>

(* One call of generate_uuid(). *)
GenDraw ==
    /\ pc = "draw"
    /\ queue # << >>
    /\ \E t \in Tokens : drawn' = Append(drawn, t)
    /\ queue' = Tail(queue)
    /\ UNCHANGED <<disk, backup, pc, script, start, files, report, nwrites,
                   outcome, verdict, hist, runs>>

(* The insertions with the identifiers drawn, and the write. *)
GenCommit ==
    /\ pc = "draw"
    /\ queue = << >>
    /\ pc' = "done"
    /\ IF script = "add_missing_files"
       THEN /\ disk' = AMF_Insert(disk, DrawnEntries(files, drawn, TRUE),
                                  SubSeq(drawn, 2 * Len(files) + 1, Len(drawn)))
            /\ report' = ReportOf(files, Range(files), {})
            /\ nwrites' = 1
            /\ outcome' = "ok"
       ELSE IF script = "add_missing_files_fixed"
       THEN /\ disk' = LET es == DrawnEntries(files, drawn, TRUE)
                       IN  InsertMembers(
                             InsertBuildFiles(
                               InsertFileReferences(disk, FileRefsOf(es, TRUE)),
                               BuildFilesOf(es)),
                             MembersOf(es))
            /\ report' = ReportOf(files, Range(files), {})
            /\ nwrites' = 1
            /\ outcome' = "ok"
       ELSE IF drawn = << >>
            THEN /\ outcome' = "early"
                 /\ report' = ReportOf(files, {},
                                 { r \in Range(files) : CommentInContent(disk, r.name) })
                 /\ UNCHANGED <<disk, nwrites>>
            ELSE /\ disk' = FPFF_Insert(disk,
                               DrawnEntries(FPFF_missing_files(disk, files), drawn, FALSE))
                 /\ report' = ReportOf(files, Range(FPFF_missing_files(disk, files)),
                                       Range(files))
                 /\ nwrites' = 1
                 /\ outcome' = "ok"
    /\ UNCHANGED <<backup, script, queue, start, files, verdict, hist, runs, drawn>>

GenNext ==
    \/ \E s \in GenScripts : \E fl \in GenLists(s) : GenBegin(s, fl)
    \/ GenDraw
    \/ GenCommit

GenSpec == GenInit /\ [][GenNext]_vars

---------------------------------------------------------------------------
(* The same batch in another order.  The order of the requests is the      *)
(* order of the script's list (fix_project_correctly: swift_files; the     *)
(* others: the listed files that exist).  To compare orders, a script that *)
(* has run is run once more on the document as it was before, its list    *)
(* permuted.                                                               *)

OrderScripts == { "fix_project_correctly", "add_missing_files_to_xcode" }

Permuted(fl) ==
    { p \in SeqsUpTo(Range(fl), Len(fl)) : Len(p) = Len(fl) /\ NoDup(p) /\ p # fl }

Reorder ==
    /\ pc = "done"
    /\ outcome = "ok"
    /\ hist = NoRun
    /\ runs < MaxRuns
    /\ runs' = runs + 1
    /\ \E p \in Permuted(files) : files' = p /\ queue' = p
    /\ hist' = [script |-> script, start |-> <<start>>, out |-> <<disk>>,
                outcome |-> outcome]
    /\ disk' = start
    /\ report' = << >>
    /\ nwrites' = 0
    /\ outcome' = "running"
    /\ verdict' = "none"
    /\ backup' = IF TakesBackup(script, files) THEN <<start>> ELSE backup
    /\ pc' = IF script \in PerRequestScripts THEN "loop" ELSE "commit"
    /\ UNCHANGED <<script, start, drawn>>

OrderNext ==
    \/ \E s \in OrderScripts : \E fl \in RequestLists(s) : Begin(s, fl)
    \/ Reorder
    \/ RequestStep
    \/ LoopEnd
    \/ Commit
    \/ Verify

OrderSpec == Init /\ [][OrderNext]_vars

---------------------------------------------------------------------------
(* Properties *)

Finished == pc = "done" /\ outcome = "ok"

(* The run at hand is the second of two completed runs of its script on    *)
(* the same request list, the first of which left the document the second  *)
(* started from.                                                           *)
SecondRun ==
    /\ Finished
    /\ hist.script = script
    /\ hist.outcome = "ok"
    /\ hist.out = <<start>>

IdsOfSeq(s) == { s[i].id : i \in DOMAIN s }

(* Identifiers the run brought into the document. *)
NewIds == UsedIds(disk) \ UsedIds(start)

(* C1: idempotence of registration.  When add_files_to_project,            *)
(* add_missing_files or add_additional_files has run twice with the same   *)
(* request list, the document after the second run is the document after   *)
(* the first: the second run added no FileReference, no BuildFile, no      *)
(* group child and no build-phase member.                                  *)
C1_Idempotence ==
    ( /\ SecondRun
      /\ script \in { "add_files_to_project", "add_missing_files",
                      "add_additional_files" } )
    => disk = start

(* The path a FileReference stands for: the directory written into its     *)
(* path, or else the group that holds it.                                  *)
HasRefForPath(d, p) ==
    \E i \in DOMAIN d.fr :
        /\ d.fr[i].name = p.name
        /\ \/ d.fr[i].dir = p.dir
           \/ /\ d.fr[i].dir = NoDir
              /\ \E g \in DOMAIN d.groups :
                    /\ d.groups[g].name = p.dir
                    /\ d.fr[i].id \in IdsOfSeq(d.groups[g].children)

(* The FileReferences of a name that the run has added. *)
NewRefs(n) == { i \in DOMAIN disk.fr : disk.fr[i].name = n /\ disk.fr[i].id \in NewIds }

(* The new FileReference i is a child of a group of the request's          *)
(* directory.                                                              *)
LinkedInOwnGroup(i, p) ==
    \E g \in DOMAIN disk.groups :
        /\ disk.groups[g].name = p.dir
        /\ disk.fr[i].id \in IdsOfSeq(disk.groups[g].children)

(* C2: identity by path, not by name.  In a finished run of                *)
(* add_missing_files_to_project, fix_project_file_final or                 *)
(* comprehensive_fix a request is reported skipped only if the document    *)
(* had a FileReference of its path, and two requests of one name and       *)
(* different paths that were both added have distinct FileReferences, each *)
(* a child of the group of its own directory.                              *)
C2_IdentityByPath ==
    ( /\ pc = "done"
      /\ outcome \in {"ok", "early"}
      /\ script \in { "add_missing_files_to_project", "fix_project_file_final",
                      "comprehensive_fix" } )
    => /\ \A i \in DOMAIN report :
             report[i].res = "skipped" => HasRefForPath(start, report[i].path)
       /\ \A i, j \in DOMAIN report :
             ( /\ i # j
               /\ report[i].path.name = report[j].path.name
               /\ report[i].res = "added" /\ report[j].res = "added" )
             => \E a, b \in NewRefs(report[i].path.name) :
                    /\ a # b
                    /\ LinkedInOwnGroup(a, report[i].path)
                    /\ LinkedInOwnGroup(b, report[j].path)

(* Every BuildFile wraps a FileReference of the document, every group      *)
(* child is a FileReference or a group of it, every phase member one of    *)
(* its BuildFiles.                                                         *)
ReferentialIntegrity(d) ==
    /\ \A i \in DOMAIN d.bf : d.bf[i].fref \in IdsOfSeq(d.fr)
    /\ \A e \in AllEntries(d.groups, "children") :
          e.id \in IdsOfSeq(d.fr) \cup IdsOfSeq(d.groups)
    /\ \A e \in AllEntries(d.phases, "files") : e.id \in IdsOfSeq(d.bf)

(* C3: referential integrity of the written document.  After a run of      *)
(* add_animation_system, add_network_types or add_missing_files_advanced   *)
(* on a document with referential integrity the document on disk has it    *)
(* too, whichever markers and patterns the script found.                   *)
C3_ReferentialIntegrity ==
    ( /\ pc = "done"
      /\ script \in { "add_animation_system", "add_network_types",
                      "add_missing_files_advanced" }
      /\ ReferentialIntegrity(start) )
    => ReferentialIntegrity(disk)

(* C4: batch atomicity under validation failure.  When the verification   *)
(* at the end of comprehensive_fix or fix_project_correctly fails, the     *)
(* document on disk at the end of the run is the document the run started  *)
(* from.                                                                   *)
C4_RollbackOnFailedVerification ==
    ( /\ pc = "done"
      /\ script \in { "comprehensive_fix", "fix_project_correctly" }
      /\ verdict = "fail" )
    => disk = start

(* The run has stopped before its final write: by an exception or an early *)
(* return, in a per-request script with requests still to process.         *)
Aborted ==
    /\ pc = "done"
    /\ outcome \in {"raised", "early"}
    /\ script \in PerRequestScripts => queue # << >>

(* C5: no partial writes on abort.  When a run of add_additional_files,    *)
(* add_missing_files_to_project or add_critical_missing_files stops before *)
(* its final write, the document on disk is the one the run started from.  *)
C5_NoPartialWrites ==
    ( /\ Aborted
      /\ script \in { "add_additional_files", "add_missing_files_to_project",
                      "add_critical_missing_files" } )
    => disk = start

(* C6: round trip with zero requests.  When a finished run of              *)
(* add_missing_files, add_missing_files_fixed or comprehensive_fix had no  *)
(* file to register (no listed file exists, or every request was skipped), *)
(* the document on disk is the one the run started from.                   *)
C6_ZeroRequestsRoundTrip ==
    ( /\ Finished
      /\ script \in { "add_missing_files", "add_missing_files_fixed",
                      "comprehensive_fix" }
      /\ \A i \in DOMAIN report : report[i].res = "skipped" )
    => disk = start

ChildrenOfGroupsNamed(d, name) ==
    UNION { { d.groups[g].children[i] : i \in DOMAIN d.groups[g].children } :
            g \in { h \in DOMAIN d.groups : d.groups[h].name = name } }

MembersOfPhases(d, T) ==
    UNION { { d.phases[p].files[i] : i \in DOMAIN d.phases[p].files } : p \in T }

NewBuildFiles == { i \in DOMAIN disk.bf : disk.bf[i].id \in NewIds }

(* C7: the single-file scenario.  When add_appmodels has run on a document *)
(* with its markers in place, an empty Sources phase and an empty Models   *)
(* group, the document has exactly one new FileReference (AppModels), one  *)
(* new BuildFile wrapping it, the FileReference's identifier as the one    *)
(* new child of the Models group and the BuildFile's identifier as the one *)
(* new member of the first Sources phase.                                  *)
C7_SingleFileScenario ==
    ( /\ Finished
      /\ script = "add_appmodels"
      /\ start.mk = StdMarkers
      /\ \A p \in SourcesPhases(start) : start.phases[p].files = << >>
      /\ ChildrenOfGroupsNamed(start, "Models") = {} )
    => \E f \in NewRefs(AppModels), b \in NewBuildFiles :
          /\ NewRefs(AppModels) = {f}
          /\ NewBuildFiles = {b}
          /\ disk.bf[b].fref = disk.fr[f].id
          /\ ChildrenOfGroupsNamed(disk, "Models") = { Entry(disk.fr[f].id, AppModels) }
          /\ MembersOfPhases(disk, First(SourcesPhases(disk)))
                = { Entry(disk.bf[b].id, AppModels) }

(* The four writes of a request, as the run left them in the document. *)
WroteFileRef(n) == NewRefs(n) # {}
WroteBuildFile(n) == \E i \in NewBuildFiles : disk.bf[i].name = n
WroteChild(n) ==
    \E e \in AllEntries(disk.groups, "children") : e.name = n /\ e.id \in NewIds
WroteMember(n) ==
    \E e \in AllEntries(disk.phases, "files") : e.name = n /\ e.id \in NewIds

(* C8: per-request atomicity of the four writes.  In the document that     *)
(* add_animation_system, add_missing_files_to_xcode or                     *)
(* add_networking_protocols_manual has written, every request has all four *)
(* of FileReference, BuildFile, group child and phase member, or none.     *)
C8_FourWritesAtomic ==
    ( /\ pc = "done"
      /\ nwrites > 0
      /\ script \in { "add_animation_system", "add_missing_files_to_xcode",
                      "add_networking_protocols_manual" } )
    => \A i \in DOMAIN files :
          \/ /\ WroteFileRef(files[i].name) /\ WroteBuildFile(files[i].name)
             /\ WroteChild(files[i].name) /\ WroteMember(files[i].name)
          \/ /\ ~WroteFileRef(files[i].name) /\ ~WroteBuildFile(files[i].name)
             /\ ~WroteChild(files[i].name) /\ ~WroteMember(files[i].name)

(* A turn of the loop that reports its request skipped leaves the document *)
(* and the count of writes as they were.                                   *)
SkipChangesNothing ==
    ( /\ pc = "loop"
      /\ script \in { "add_additional_files", "add_missing_files_to_project" }
      /\ Len(report') = Len(report) + 1
      /\ report'[Len(report')].res = "skipped" )
    => disk' = disk /\ nwrites' = nwrites

(* In the second of two runs on the same list every request is skipped. *)
RerunAllSkipped ==
    ( /\ SecondRun
      /\ script \in { "add_additional_files", "add_missing_files_to_project" } )
    => \A i \in DOMAIN report : report[i].res = "skipped"

(* C9: a skipped request mutates nothing, and a request that is run again  *)
(* is skipped.  In add_additional_files and add_missing_files_to_project a *)
(* request reported skipped leaves the document as it was and writes       *)
(* nothing, and when the script is run a second time on the same list      *)
(* every request is reported skipped.                                      *)
C9_SkipIsNoOpAndRerunSkips == [][SkipChangesNothing]_vars /\ []RerunAllSkipped

(* The FileReferences the document holds for the path. *)
RefsForPath(d, p) ==
    { i \in DOMAIN d.fr :
        /\ d.fr[i].name = p.name
        /\ \/ d.fr[i].dir = p.dir
           \/ /\ d.fr[i].dir = NoDir
              /\ \E g \in DOMAIN d.groups :
                    /\ d.groups[g].name = p.dir
                    /\ d.fr[i].id \in IdsOfSeq(d.groups[g].children) }

(* The path has a FileReference in the document and no BuildFile of it is  *)
(* a member of a Sources phase.                                            *)
ReferencedNotBuilt(d, p) ==
    /\ RefsForPath(d, p) # {}
    /\ \A i \in RefsForPath(d, p) : \A b \in DOMAIN d.bf :
          d.bf[b].fref = d.fr[i].id
             => d.bf[b].id \notin
                  { e.id : e \in MembersOfPhases(d, SourcesPhases(d)) }

(* C10: reuse instead of skip or duplicate.  When comprehensive_fix,       *)
(* fix_project_file_final or fix_project_correctly is through with a       *)
(* request whose path had a FileReference but no BuildFile in the target   *)
(* phase, the request is reported added, no FileReference of its name is   *)
(* new, and a new BuildFile wrapping the existing FileReference is a       *)
(* member of a Sources phase.                                              *)
C10_ReuseExistingFileReference ==
    ( /\ pc = "done"
      /\ outcome \in {"ok", "early"}
      /\ script \in { "comprehensive_fix", "fix_project_file_final",
                      "fix_project_correctly" } )
    => \A i \in DOMAIN report :
          ReferencedNotBuilt(start, report[i].path)
          => /\ report[i].res = "added"
             /\ NewRefs(report[i].path.name) = {}
             /\ \E b \in NewBuildFiles :
                   /\ disk.bf[b].fref \in
                         { start.fr[r].id : r \in RefsForPath(start, report[i].path) }
                   /\ disk.bf[b].id \in
                         { e.id : e \in MembersOfPhases(disk, SourcesPhases(disk)) }

(* C11: generator uniqueness.  In every run the identifiers the generator *)
(* has returned are pairwise distinct and none of them is an identifier    *)
(* of the document the run is patching.                                    *)
C11_GeneratorUniqueness ==
    pc \in {"draw", "done"}
    => /\ \A i, j \in DOMAIN drawn : i # j => drawn[i] # drawn[j]
       /\ \A i \in DOMAIN drawn : drawn[i] \notin UsedIds(start)

(* The phase a script puts its members into: the first it finds, or the    *)
(* one with the hard-coded identifier.                                     *)
TargetPhase(s, d) ==
    IF s = "add_critical_missing_files" THEN SourcesPhases(d) ELSE PrimaryPhase(d)

(* A section marker, the script's build phase or the Core group is not to  *)
(* be found in the document.                                               *)
StructureMissing(s, d) ==
    \/ \E k \in DOMAIN d.mk : d.mk[k] # "std"
    \/ TargetPhase(s, d) = {}
    \/ \A g \in DOMAIN d.groups : d.groups[g].id # CORE_GROUP_ID

(* C12: missing structure is fatal before any mutation.  When a run of     *)
(* add_critical_missing_files, fix_project_file_final or add_missing_files *)
(* started on a document where a section marker, the build phase or the    *)
(* Core group cannot be located, the run inserts nothing and does not      *)
(* write the project document.                                             *)
C12_MissingStructureIsFatal ==
    ( /\ pc = "done"
      /\ script \in { "add_critical_missing_files", "fix_project_file_final",
                      "add_missing_files" }
      /\ StructureMissing(script, start) )
    => disk = start /\ nwrites = 0

(* The target group or the target phase of the request is not in the       *)
(* document: the phase with the hard-coded identifier, and the group the   *)
(* script names for the file (a file of a new group has its group made by  *)
(* the run).                                                               *)
TargetUnresolved(s, d, p) ==
    \/ PrimaryPhase(d) = {}
    \/ /\ s = "add_animation_system"
       /\ \A g \in DOMAIN d.groups : d.groups[g].id # DESIGN_SYSTEM_GROUP_ID
    \/ /\ s = "add_networking_protocols"
       /\ \A g \in DOMAIN d.groups : d.groups[g].id # NETWORKING_GROUP_ID
    \/ /\ s = "add_missing_files_simple"
       /\ p.dir = "Models"
       /\ \A g \in DOMAIN d.groups : d.groups[g].id # CORE_MODELS_GROUP_ID

(* C13: an unresolved target fails only that request.  When a run of       *)
(* add_missing_files_simple, add_networking_protocols or                   *)
(* add_animation_system is through, a request whose target group or target *)
(* phase was not in the document is reported failed and has none of its    *)
(* four writes in the document, and every other request is reported added. *)
C13_UnresolvedTargetFailsRequest ==
    ( /\ pc = "done"
      /\ outcome = "ok"
      /\ script \in { "add_missing_files_simple", "add_networking_protocols",
                      "add_animation_system" } )
    => \A i \in DOMAIN report :
          IF TargetUnresolved(script, start, report[i].path)
          THEN /\ report[i].res = "failed"
               /\ ~WroteFileRef(report[i].path.name)
               /\ ~WroteBuildFile(report[i].path.name)
               /\ ~WroteChild(report[i].path.name)
               /\ ~WroteMember(report[i].path.name)
          ELSE report[i].res = "added"

(* The name is that of a FileReference, BuildFile, child or member of the  *)
(* document.                                                               *)
Registered(d, n) ==
    \/ \E i \in DOMAIN d.fr : d.fr[i].name = n
    \/ \E i \in DOMAIN d.bf : d.bf[i].name = n
    \/ \E e \in AllEntries(d.groups, "children") : e.name = n
    \/ \E e \in AllEntries(d.phases, "files") : e.name = n

(* The run was not cut short from outside: it came to its end, or it died  *)
(* of an exception of its own after it had looked at its requests.         *)
EndedByItself ==
    /\ pc = "done"
    /\ \/ outcome \in {"ok", "early"}
       \/ outcome = "raised" /\ files # << >> /\ Len(report) = Len(files)

(* C14: a duplicate request is not fatal.  When a run of comprehensive_fix, *)
(* add_critical_missing_files or add_additional_files has reported a        *)
(* request skipped, every later request of the list has its report, and    *)
(* one that was not registered is reported added and has its member in the *)
(* document.                                                               *)
C14_DuplicateIsNotFatal ==
    ( /\ EndedByItself
      /\ script \in { "comprehensive_fix", "add_critical_missing_files",
                      "add_additional_files" } )
    => \A i, j \in DOMAIN files :
          ( /\ i < j
            /\ i \in DOMAIN report
            /\ report[i].res = "skipped" )
          => /\ j \in DOMAIN report
             /\ report[j].path = files[j]
             /\ ~Registered(start, files[j].name)
                   => /\ report[j].res = "added"
                      /\ WroteMember(files[j].name)

(* C15: the per-request report is truthful.  When a run of                 *)
(* add_missing_files_to_project, comprehensive_fix or                      *)
(* add_missing_files_to_xcode is through, a request it reported added has  *)
(* its FileReference, its BuildFile, its group child and its phase member  *)
(* in the document, all four written by the run.                           *)
C15_ReportIsTruthful ==
    ( /\ Finished
      /\ script \in { "add_missing_files_to_project", "comprehensive_fix",
                      "add_missing_files_to_xcode" } )
    => \A i \in DOMAIN report :
          report[i].res = "added"
          => /\ WroteFileRef(report[i].path.name)
             /\ WroteBuildFile(report[i].path.name)
             /\ WroteChild(report[i].path.name)
             /\ WroteMember(report[i].path.name)

(* The path value of a FileReference: the directory written into its path  *)
(* and its name, or for a bare path the groups that hold the record and    *)
(* its name.                                                               *)
PathValue(d, i) ==
    IF d.fr[i].dir # NoDir
    THEN << {d.fr[i].dir}, d.fr[i].name >>
    ELSE << { d.groups[g].name : g \in { h \in DOMAIN d.groups :
                  d.fr[i].id \in IdsOfSeq(d.groups[h].children) } },
            d.fr[i].name >>

OneRefPerPath(d) ==
    \A i, j \in DOMAIN d.fr : i # j => PathValue(d, i) # PathValue(d, j)

(* C16: at most one FileReference per path.  When a run of                 *)
(* fix_project_file_final, add_shared_files_to_project or fix_file_paths   *)
(* that began on a document with no two FileReferences of one path value   *)
(* has ended, no two FileReferences of the document have the same path     *)
(* value.                                                                  *)
C16_OneFileReferencePerPath ==
    ( /\ pc = "done"
      /\ script \in { "fix_project_file_final", "add_shared_files_to_project",
                      "fix_file_paths" }
      /\ OneRefPerPath(start) )
    => OneRefPerPath(disk)

(* What a run that began on document d0 has registered in document d: the *)
(* names of the new FileReferences and BuildFiles, the new children by     *)
(* group and the new members by phase, identifiers and order left aside.   *)
NewEntryNames(s, d0) == { s[i].name : i \in { j \in DOMAIN s : s[j].id \notin UsedIds(d0) } }

RegisteredBy(d, d0) ==
    [refs |-> NewEntryNames(d.fr, d0),
     builds |-> NewEntryNames(d.bf, d0),
     children |-> [g \in DOMAIN d.groups |-> NewEntryNames(d.groups[g].children, d0)],
     members |-> [p \in DOMAIN d.phases |-> NewEntryNames(d.phases[p].files, d0)]]

(* C17: the order of the batch does not change what gets registered.  When *)
(* fix_project_correctly or add_missing_files_to_xcode has run on a        *)
(* document with its list in one order and in another, the two runs have   *)
(* registered the same FileReferences, BuildFiles, children and members.   *)
C17_OrderIndependence ==
    ( /\ Finished
      /\ script \in OrderScripts
      /\ hist.script = script
      /\ hist.start = <<start>>
      /\ Range(files) # {} )
    => RegisteredBy(disk, start) = RegisteredBy(hist.out[1], start)

(* a is what is left of b when entries are taken out of b. *)
RECURSIVE IsSubsequence(_, _)
IsSubsequence(a, b) ==
    IF a = << >> THEN TRUE
    ELSE IF b = << >> THEN FALSE
    ELSE IF Head(a) = Head(b) THEN IsSubsequence(Tail(a), Tail(b))
    ELSE IsSubsequence(a, Tail(b))

Copies(s, e) == Cardinality({ i \in DOMAIN s : s[i] = e })

(* Sequence b holds every entry of a, in the order of a and as often. *)
KeepsAll(a, b) ==
    /\ IsSubsequence(a, b)
    /\ \A e \in Range(a) : Copies(b, e) = Copies(a, e)

(* Document d has everything document d0 had: its markers, its records,   *)
(* its groups and phases with their attributes and their entries.          *)
Preserves(d, d0) ==
    /\ d.mk = d0.mk
    /\ KeepsAll(d0.fr, d.fr)
    /\ KeepsAll(d0.bf, d.bf)
    /\ \A g \in DOMAIN d0.groups :
          /\ g \in DOMAIN d.groups
          /\ d.groups[g].id = d0.groups[g].id
          /\ d.groups[g].name = d0.groups[g].name
          /\ d.groups[g].form = d0.groups[g].form
          /\ KeepsAll(d0.groups[g].children, d.groups[g].children)
    /\ \A p \in DOMAIN d0.phases :
          /\ p \in DOMAIN d.phases
          /\ d.phases[p].id = d0.phases[p].id
          /\ d.phases[p].name = d0.phases[p].name
          /\ d.phases[p].form = d0.phases[p].form
          /\ KeepsAll(d0.phases[p].files, d.phases[p].files)

(* C18: registration only adds.  When add_network_types or                 *)
(* add_shared_files_to_project has run, every record of the starting       *)
(* document is in the document with its identifier and attributes, and     *)
(* every list has its former entries in their order, none of them twice.   *)
C18_RegistrationOnlyAdds ==
    ( /\ pc = "done"
      /\ script \in { "add_network_types", "add_shared_files_to_project" } )
    => Preserves(disk, start)

IsPrefix(a, b) == Len(a) <= Len(b) /\ SubSeq(b, 1, Len(a)) = a

NamesOf(s) == [i \in DOMAIN s |-> s[i].name]

(* The names of the entries of s that the run has brought, in their order. *)
NewNames(s) == NamesOf(SeqFilter(s, { e \in Range(s) : e.id \in NewIds }))

(* The entries the document had are the first of s, and the new ones       *)
(* follow in the order of the requests.                                    *)
AppendedInOrder(s0, s) ==
    /\ IsPrefix(s0, s)
    /\ IsSubsequence(NewNames(s), NamesOf(files))

(* C19: append-at-end ordering.  When add_appmodels,                       *)
(* add_missing_files_to_xcode or add_missing_files_advanced has run, the   *)
(* records and entries the document had come first in every section, group *)
(* and phase, and the new ones follow them in the order of the requests.   *)
C19_AppendAtEnd ==
    ( /\ pc = "done"
      /\ script \in { "add_appmodels", "add_missing_files_to_xcode",
                      "add_missing_files_advanced" } )
    => /\ AppendedInOrder(start.fr, disk.fr)
       /\ AppendedInOrder(start.bf, disk.bf)
       /\ \A g \in DOMAIN start.groups :
             /\ g \in DOMAIN disk.groups
             /\ IsPrefix(start.groups[g].children, disk.groups[g].children)
       /\ \A g \in DOMAIN disk.groups :
             IsSubsequence(NewNames(SeqFilter(disk.groups[g].children,
                               { e \in Range(disk.groups[g].children) :
                                   e.name \in Range(NamesOf(files)) })),
                           NamesOf(files))
       /\ \A p \in DOMAIN start.phases :
             /\ p \in DOMAIN disk.phases
             /\ AppendedInOrder(start.phases[p].files, disk.phases[p].files)

(* C20: a new member comes with its records.  When add_files_to_project,   *)
(* add_additional_files or fix_project_correctly, run on a document with   *)
(* all section markers in their standard form, has put a new identifier    *)
(* into a Sources phase, the document holds a BuildFile of that identifier *)
(* and the FileReference that BuildFile wraps.                             *)
C20_MemberHasItsRecords ==
    ( /\ script \in { "add_files_to_project", "add_additional_files",
                      "fix_project_correctly" }
      /\ pc \in {"loop", "verify", "done"}
      /\ start.mk = StdMarkers )
    => \A e \in MembersOfPhases(disk, SourcesPhases(disk)) :
          e.id \in NewIds
          => \E b \in DOMAIN disk.bf :
                /\ disk.bf[b].id = e.id
                /\ \E f \in DOMAIN disk.fr : disk.fr[f].id = disk.bf[b].fref

---------------------------------------------------------------------------
(* C21: single commit.  In one run of add_files_to_project,                *)
(* add_missing_files_to_project or fix_project_correctly the project       *)
(* document is written at most once: never once per request.               *)
C21_SingleCommit ==
    script \in { "add_files_to_project", "add_missing_files_to_project",
                 "fix_project_correctly" }
    => nwrites <= 1

---------------------------------------------------------------------------
(* C22: validation precedes commit.  In a run of comprehensive_fix or      *)
(* fix_paths_correctly the project document has been written only if the  *)
(* run's verification was made before and passed.  (The content check of   *)
(* fix_project_file_final, lines 127-130, stands in front of its write     *)
(* inside the one step that does both.)                                    *)
C22_ValidationPrecedesCommit ==
    ( /\ script \in { "comprehensive_fix", "fix_paths_correctly" }
      /\ nwrites > 0 )
    => verdict = "pass"

---------------------------------------------------------------------------
---------------------------------------------------------------------------
(* C24: only the primary build phase is touched.  A run of                 *)
(* comprehensive_fix, add_files_to_project or add_appmodels changes the    *)
(* member list of at most one build phase: with a second phase named       *)
(* Sources in the document, the members of all phases but one are as they  *)
(* were when the run began.                                                *)
PhasesTouched(d, d0) ==
    { i \in DOMAIN d.phases :
        i \notin DOMAIN d0.phases \/ d.phases[i].files # d0.phases[i].files }

C24_OnlyPrimaryPhaseTouched ==
    ( /\ script \in { "comprehensive_fix", "add_files_to_project", "add_appmodels" }
      /\ pc \in {"loop", "verify", "done"} )
    => Cardinality(PhasesTouched(disk, start)) <= 1

---------------------------------------------------------------------------
(* C25: at most one BuildFile per FileReference per phase.  After a run of *)
(* add_files_to_project or add_missing_files_fixed on a document where it  *)
(* was so, for every FileReference and every build phase at most one       *)
(* member of the phase is a BuildFile whose fileRef is that FileReference. *)
WrappersIn(d, p, f) ==
    { m \in DOMAIN d.phases[p].files :
        \E b \in DOMAIN d.bf : /\ d.bf[b].id = d.phases[p].files[m].id
                               /\ d.bf[b].fref = d.fr[f].id }

OneBuildFilePerRef(d) ==
    \A p \in DOMAIN d.phases : \A f \in DOMAIN d.fr :
        Cardinality(WrappersIn(d, p, f)) <= 1

C25_OneBuildFilePerRefPerPhase ==
    ( /\ script \in { "add_files_to_project", "add_missing_files_fixed" }
      /\ OneBuildFilePerRef(start) )
    => OneBuildFilePerRef(disk)

---------------------------------------------------------------------------
(* C26: the group graph stays acyclic.  After a run of add_missing_files,  *)
(* add_missing_files_simple, add_missing_files_advanced or                 *)
(* add_shared_files_to_project on a document whose group graph was         *)
(* acyclic, no group is reachable from itself by following child           *)
(* identifiers.                                                            *)
GroupIds(d) == { d.groups[i].id : i \in DOMAIN d.groups }

ChildGroups(d, S) ==
    { b \in GroupIds(d) :
        \E i \in DOMAIN d.groups :
            /\ d.groups[i].id \in S
            /\ \E k \in DOMAIN d.groups[i].children : d.groups[i].children[k].id = b }

RECURSIVE Descendants(_, _, _)
Descendants(d, S, n) ==
    IF n = 0 THEN S
    ELSE Descendants(d, S \cup ChildGroups(d, S), n - 1)

Acyclic(d) ==
    \A g \in GroupIds(d) :
        g \notin Descendants(d, ChildGroups(d, {g}), Cardinality(GroupIds(d)))

C26_GroupGraphAcyclic ==
    ( /\ script \in { "add_missing_files", "add_missing_files_simple",
                      "add_missing_files_advanced", "add_shared_files_to_project" }
      /\ pc = "done"
      /\ Acyclic(start) )
    => Acyclic(disk)

---------------------------------------------------------------------------
(* The text of an identifier.  Spec and GenSpec take an identifier as a    *)
(* token; ShapeSpec runs a generator on random bytes, one byte per step,   *)
(* and leaves the string it returns in drawn.                              *)

(* The values a random byte is drawn from: one that formats to one hex     *)
(* digit without padding, one that formats to two.                         *)
ByteValues == { 0, 171 }

HexChars == << "0", "1", "2", "3", "4", "5", "6", "7", "8", "9",
               "A", "B", "C", "D", "E", "F" >>

(* hex(x)[2:].upper(): no leading zero. *)
HexUpper(x) ==
    IF x < 16 THEN << HexChars[x + 1] >>
    ELSE << HexChars[(x \div 16) + 1], HexChars[(x % 16) + 1] >>

(* f'{x:02X}': two digits. *)
Hex02X(x) == << HexChars[(x \div 16) + 1], HexChars[(x % 16) + 1] >>

(* uuid.uuid4().bytes: sixteen random bytes with the version nibble (byte  *)
(* 6, counted from 0) set to 4 and the top bits of byte 8 set to 10.       *)
uuid4_bytes(r) ==
    [i \in DOMAIN r |->
        IF i = 7 THEN 64 + (r[i] % 16)
        ELSE IF i = 9 THEN 128 + (r[i] % 64)
        ELSE r[i]]

RECURSIVE JoinHexUpper(_)
JoinHexUpper(bs) ==
    IF bs = << >> THEN << >> ELSE HexUpper(Head(bs)) \o JoinHexUpper(Tail(bs))

RECURSIVE JoinHex02X(_)
JoinHex02X(bs) ==
    IF bs = << >> THEN << >> ELSE Hex02X(Head(bs)) \o JoinHex02X(Tail(bs))

(* ''.join([hex(x)[2:].upper() for x in uuid.uuid4().bytes])[:24]: a slice *)
(* stops at the end of a shorter string.                                   *)
generate_xcode_uuid(r) ==
    LET joined == JoinHexUpper(uuid4_bytes(r))
    IN  SubSeq(joined, 1, IF Len(joined) < 24 THEN Len(joined) ELSE 24)

(* ''.join([f'{random.randint(0,255):02X}' for _ in range(12)]) *)
FPFF_uuid(r) == JoinHex02X(r)

ShapeScripts == { "comprehensive_fix", "fix_paths_correctly", "fix_project_file_final" }

(* The random bytes one call consumes. *)
BytesOf(s) == IF s = "fix_project_file_final" THEN 12 ELSE 16

ShapeInit ==
    /\ disk = EmptyDoc(StdMarkers, << Phase(SOURCES_PHASE_ID, "Sources", << >>) >>)
    /\ backup = << >>
    /\ pc = "idle"
    /\ script = "none"
    /\ queue = << >>
    /\ start = << >>
    /\ files = << >>
    /\ report = << >>
    /\ nwrites = 0
    /\ outcome = "none"
    /\ verdict = "none"
    /\ hist = NoRun
    /\ runs = 0
    /\ drawn = << >>

(* A script calls its generator. *)
ShapeBegin(s) ==
    /\ pc = "idle"
    /\ pc' = "bytes"
    /\ script' = s
    /\ UNCHANGED <<disk, backup, queue, start, files, report, nwrites, outcome,
                   verdict, hist, runs, drawn>>

(* The next random byte (queue holds the bytes drawn so far). *)
ShapeByte ==
    /\ pc = "bytes"
    /\ Len(queue) < BytesOf(script)
    /\ \E b \in ByteValues : queue' = Append(queue, b)
    /\ UNCHANGED <<disk, backup, pc, script, start, files, report, nwrites,
                   outcome, verdict, hist, runs, drawn>>

(* The generator returns. *)
ShapeReturn ==
    /\ pc = "bytes"
    /\ Len(queue) = BytesOf(script)
    /\ pc' = "done"
    /\ drawn' = << IF script = "fix_project_file_final"
                   THEN FPFF_uuid(queue) ELSE generate_xcode_uuid(queue) >>
    /\ UNCHANGED <<disk, backup, script, queue, start, files, report, nwrites,
                   outcome, verdict, hist, runs>>

ShapeNext ==
    \/ \E s \in ShapeScripts : ShapeBegin(s)
    \/ ShapeByte
    \/ ShapeReturn

ShapeSpec == ShapeInit /\ [][ShapeNext]_vars

(* C27: identifier shape.  Every identifier a generator returns is exactly *)
(* 24 characters long and made of the characters 0-9 and A-F, whatever the *)
(* random bytes are.                                                       *)
C27_IdentifierShape ==
    pc = "done"
    => \A i \in DOMAIN drawn :
          /\ Len(drawn[i]) = 24
          /\ \A k \in DOMAIN drawn[i] : drawn[i][k] \in Range(HexChars)

---------------------------------------------------------------------------
(* C28: no lost updates within a batch of add_missing_files_to_xcode.      *)
(* When main has processed its files on a document that holds a BuildFile  *)
(* and a FileReference to insert behind, the document it wrote holds the   *)
(* FileReference and the BuildFile added for every one of the files, not   *)
(* only those of the last.                                                 *)
C28_NoLostUpdates ==
    ( /\ Finished
      /\ script = "add_missing_files_to_xcode"
      /\ start.bf # << >>
      /\ start.fr # << >> )
    => \A i \in DOMAIN files :
          /\ WroteFileRef(files[i].name)
          /\ WroteBuildFile(files[i].name)

---------------------------------------------------------------------------
---------------------------------------------------------------------------
(* C30: fix_file_paths_in_xcode_project is idempotent and changes paths    *)
(* only.  A run changes nothing but the path value of FileReference        *)
(* records whose path was the bare file name of a listed file: every       *)
(* record keeps its identifier and its place, and all other records, the   *)
(* groups and the phases are as they were; a second run on the output of   *)
(* the first changes nothing.                                              *)
OnlyPathsRewritten(d, d0) ==
    /\ d.bf = d0.bf
    /\ d.groups = d0.groups
    /\ d.phases = d0.phases
    /\ d.mk = d0.mk
    /\ d.ws = d0.ws
    /\ DOMAIN d.fr = DOMAIN d0.fr
    /\ \A i \in DOMAIN d.fr :
          /\ d.fr[i].id = d0.fr[i].id
          /\ d.fr[i].name = d0.fr[i].name
          /\ d.fr[i] # d0.fr[i] => d0.fr[i].dir = NoDir /\ d.fr[i].dir # NoDir

C30_FixPathsIdempotent ==
    ( script = "fix_file_paths" /\ Finished )
    => /\ OnlyPathsRewritten(disk, start)
       /\ SecondRun => disk = start

(* A second run of fix_file_paths has ended on a document in which the     *)
(* first run had rewritten a path.                                         *)
C30_Witness ==
    /\ script = "fix_file_paths"
    /\ Finished
    /\ SecondRun
    /\ hist.start # hist.out
    /\ disk = start

====
